---- MODULE Spec2Model ----
(***************************************************************************)
(* Verification model of the benchmark execution engine.                   *)
(*                                                                         *)
(* Two state machines share this module:                                   *)
(*   Spec        the iteration-count controller, RunSingleBenchmarkImp:    *)
(*               one instance, its repetitions and its accept-or-retry     *)
(*               loop.  The merged Result of an attempt (elapsed times,    *)
(*               error state) is the environment's input to each attempt.  *)
(*   SpecThreads one attempt: T threads running RunInThread against one    *)
(*               ThreadManager (barrier, Result mutex, alive counter),     *)
(*               interleaved step by step with the controller's            *)
(*               WaitForAllThreads.                                        *)
(*                                                                         *)
(* Times are integers counted in ticks of 1e-9 s (the constant the retry   *)
(* computation compares with), so max(seconds, 1e-9) is max(seconds, 1).   *)
(* Multipliers are exact rationals <<num, den>>.                           *)
(***************************************************************************)
EXTENDS Integers, Sequences, FiniteSets, TLC

\* ------------------------------------------------------------------------
\* Bounds of the model
\* ------------------------------------------------------------------------
NumThreads == 2
MaxIters == 2
MaxReps == 2
MaxPrior == 2
\* Most repetitions of an instance whose aggregates are computed.
MaxRepetitions == 3
\* Longest vector a reducer is called with.
MaxLen == 5
\* Most run records a complexity fit is computed from.
MaxPoints == 3
\* Most reports in a list given to CompareResults.
MaxList == 2
\* Highest reading of the clocks a timer takes, in ticks.
MaxClock == 2
\* Most calls made on one timer.
MaxCalls == 4
\* Most Benchmark objects registered in one run.
MaxRegistered == 3
\* Longest list of instances given to RunBenchmarks, and the most runs it
\* asks for.
MaxInstances == 3
MaxRuns == 5
\* Most builder calls made on a family, and most calls made on the callback
\* list.
MaxBuilds == 3
MaxCallbackCalls == 4

\* ------------------------------------------------------------------------
\* Program constants
\* ------------------------------------------------------------------------
kMaxIterations == 1000000000

oNone == "oNone"
oN == "oN"

\* ReportMode of a family.
RM_Unspecified == "RM_Unspecified"
RM_Default == "RM_Default"
RM_ReportAggregatesOnly == "RM_ReportAggregatesOnly"

\* Error messages a benchmark body may pass to SkipWithError.
Msgs == {"x", "y"}

\* Values of b.info->min_time: 0 is "not set" (fall back to the flag).
MinTimes == {0, 20}
\* --benchmark_min_time, in ticks.
FlagMinTimes == {10}
\* Explicit iteration counts: 0 is "none pinned".
PinnedIterations == {0, 5}
\* Kinds of benchmark body (b.benchmark), by the elapsed times its runs can
\* measure: see CpuTimes, RealTimes, ManualTimes.
Bodies == {"steps", "doubling", "creeping"}
\* Thread counts of an instance.
ThreadCounts == {1, 2}

Max(a, b) == IF a < b THEN b ELSE a
Min(a, b) == IF b < a THEN b ELSE a

VARIABLES
  b,                  \* the BenchmarkInstance being run (with its b.info)
  flags,              \* FLAGS_benchmark_*
  cpc,                \* controller position
  iters,              \* candidate per-thread iteration count
  repetition_num,
  results,            \* Result of the last attempt, after normalisation
  attempt_iters,      \* iteration count the last attempt ran with
  attempt_rep,        \* repetition the last attempt belonged to
  should_report,      \* decision taken on the last attempt
  attempts,           \* attempts made in the current repetition
  retries,            \* retries made so far
  run_reports,
  complexity_reports,
  stat_reports,
  json_report,        \* measurements of the run record of the last attempt
  report_aggregates_only,  \* reports_json["report_aggregates_only"]
  printed,            \* the records the console reporter has printed
  call_args,          \* arguments of a direct call of a library function
  call_value          \* <<the value the call returned>>, <<>> before it

\* No library function is being called directly.
NoCall == call_args = <<>> /\ call_value = <<>>

\* ------------------------------------------------------------------------
\* ThreadTimer
\* ------------------------------------------------------------------------
VARIABLES
  timer,              \* a ThreadTimer that is called directly
  registry,           \* BenchmarkFamilies::GetInstance() and its last answer
  runner,             \* a call of RunBenchmarks: its argument and locals
  report_label_,      \* manager->results.report_label_
  manager_,           \* whether the attempt's ThreadManager still exists
  builder,            \* a Benchmark that builder calls configure
  callback_list       \* GetCallbackList(), and the counter of IDs

restVars == <<manager_, builder, callback_list>>

moreVars == <<report_label_, restVars>>

objVars == <<timer, registry, runner, moreVars>>

\* ThreadTimer() = default, with the number of calls made on it, whether a
\* CHECK of it has failed, and the last reading of ThreadCPUUsage().
NewTimer ==
  [running_ |-> FALSE, start_real_time_ |-> 0, start_cpu_time_ |-> 0,
   real_time_used_ |-> 0, cpu_time_used_ |-> 0,
   calls |-> 0, failed |-> FALSE, cpu_now |-> 0]

\* The BenchmarkFamilies singleton before any registration: families_, the
\* number of Benchmark objects made so far (an object is named by its serial
\* number), the serial number of the last object made before the last
\* ClearBenchmarks, and what the last call of FindBenchmarks returned.
NewRegistry == [families_ |-> <<>>, made |-> 0, cleared |-> 0, ret |-> <<>>]

\* enum CallbackKind, the kinds RunBenchmarks passes to its subscribers.
CK_Initial == "CK_Initial"
CK_Report == "CK_Report"
CK_Final == "CK_Final"

\* No call of RunBenchmarks: the list it is given, where the call stands,
\* how many elements of the list the loop has taken, benchmark_res, and the
\* calls InvokeCallbacks has made on a subscriber.
NewRunner ==
  [benchmarks |-> <<>>, pos |-> "none", taken |-> 0, benchmark_res |-> <<>>,
   callbacks |-> <<>>]

\* static const int kRangeMultiplier, and kint32max of AddRange.
kRangeMultiplier == 8
kint32max == 2147483647

\* Benchmark::Benchmark(name), of the fields the builder calls check: with
\* the last builder call made on it, the number of calls, and whether a CHECK
\* of a call has failed.
NewFamily ==
  [min_time |-> 0, iterations |-> 0, use_real_time |-> FALSE,
   use_manual_time |-> FALSE, args |-> <<>>, arg_names |-> <<>>,
   range_multiplier |-> kRangeMultiplier,
   last |-> "", calls |-> 0, failed |-> FALSE]

\* The callback list and the ID counter at program start: with the IDs
\* RegisterCallback has returned, the last call made, and whether a call
\* has faulted.
NewCallbacks ==
  [list |-> <<>>, ID |-> 0, returned |-> <<>>,
   last |-> [op |-> "", ID |-> -1, before |-> <<>>],
   calls |-> 0, fault |-> FALSE]

\* A new ThreadManager, with Result::report_label_ empty; no family under
\* configuration and no callback registered.
NoMore ==
  /\ report_label_ = ""
  /\ manager_ = "live"
  /\ builder = NewFamily
  /\ callback_list = NewCallbacks

NoObjects ==
  timer = NewTimer /\ registry = NewRegistry /\ runner = NewRunner /\ NoMore

\* What ChronoClockNow() and ThreadCPUUsage() may return: a later reading may
\* be lower than an earlier one.
Readings == 0..MaxClock

\* StartTimer() while ChronoClockNow() = real_now, ThreadCPUUsage() = cpu_now.
StartTimer(real_now, cpu_now) ==
  /\ ~timer.failed
  /\ timer.calls < MaxCalls
  /\ timer' = [timer EXCEPT !.running_ = TRUE,
                            !.start_real_time_ = real_now,
                            !.start_cpu_time_ = cpu_now,
                            !.calls = @ + 1,
                            !.cpu_now = cpu_now]

\* StopTimer() that adds the CPU delta as it is.
StopTimerUnclamped(real_now, cpu_now) ==
  /\ ~timer.failed
  /\ timer.calls < MaxCalls
  /\ IF ~timer.running_
     THEN timer' = [timer EXCEPT !.failed = TRUE, !.calls = @ + 1]
     ELSE timer' = [timer EXCEPT
                      !.running_ = FALSE,
                      !.real_time_used_ = @ + (real_now - timer.start_real_time_),
                      !.cpu_time_used_ = @ + (cpu_now - timer.start_cpu_time_),
                      !.calls = @ + 1,
                      !.cpu_now = cpu_now]

\* StopTimer(): CHECK(running_) fails on a stopped timer.
StopTimer(real_now, cpu_now) ==
  /\ ~timer.failed
  /\ timer.calls < MaxCalls
  /\ IF ~timer.running_
     THEN timer' = [timer EXCEPT !.failed = TRUE, !.calls = @ + 1]
     ELSE timer' = [timer EXCEPT
                      !.running_ = FALSE,
                      !.real_time_used_ = @ + (real_now - timer.start_real_time_),
                      !.cpu_time_used_ =
                        @ + Max(cpu_now - timer.start_cpu_time_, 0),
                      !.calls = @ + 1,
                      !.cpu_now = cpu_now]

ctlVars == <<b, flags, cpc, iters, repetition_num, results, attempt_iters,
             attempt_rep, should_report, attempts, retries, run_reports,
             complexity_reports, stat_reports, json_report,
             report_aggregates_only, printed, call_args, call_value, objVars>>

\* ------------------------------------------------------------------------
\* RunSingleBenchmarkImp
\* ------------------------------------------------------------------------
NoResult ==
  [real_time_used |-> 0, cpu_time_used |-> 0, manual_time_used |-> 0,
   bytes_processed |-> 0, items_processed |-> 0, complexity_n |-> 0,
   has_error_ |-> FALSE, error_message_ |-> ""]

has_explicit_iteration_count == b.iterations /= 0

InitialIters == IF has_explicit_iteration_count THEN b.iterations ELSE 1

repeats ==
  IF b.repetitions /= 0 THEN b.repetitions ELSE flags.benchmark_repetitions

\* std::numeric_limits<double>::epsilon(), in ticks: a time of 1 tick is a
\* positive time that IsZero takes for zero.
epsilon == 2

IsZero(n) == -epsilon < n /\ n < epsilon

min_time == IF ~IsZero(b.min_time) THEN b.min_time ELSE flags.benchmark_min_time

\* Elapsed times, in ticks, that an attempt of b may measure, as shares of
\* the minimum time.  On the instance's time basis a "steps" body measures
\* nothing, exactly 10% or all of the minimum (and a negative manual time), a
\* "doubling" body 70% or all of it, a "creeping" body 95% or all of it.
\* Off the basis, the CPU time is the minimum itself, the wall clock is
\* either a short time or 5 times the minimum, and the manual time is 0 (the
\* body reports none).  CPU time is a sum of clamped (non-negative) slices.
\* Real and manual time reach the controller as per-thread sums, which it
\* divides by the thread count: RunAttempt draws them as multiples of it.
Short ==
  IF b.benchmark = "steps" THEN {0, min_time \div 10}
  ELSE IF b.benchmark = "doubling" THEN {(7 * min_time) \div 10}
  ELSE {(19 * min_time) \div 20}
CpuTimes ==
  IF b.use_manual_time \/ b.use_real_time THEN {min_time}
  ELSE Short \cup {min_time}
RealTimes ==
  IF b.use_real_time THEN Short \cup {min_time, 5 * min_time}
  ELSE {(9 * min_time) \div 10, 5 * min_time}
ManualTimes ==
  IF ~b.use_manual_time THEN {0}
  ELSE Short \cup {min_time}
         \cup (IF b.benchmark = "steps" THEN {-1} ELSE {})

NormalizeNot(r) == r

\* Adjust real/manual time stats since they were reported per thread.
Normalize(r) ==
  [r EXCEPT !.real_time_used = r.real_time_used \div b.threads,
            !.manual_time_used = r.manual_time_used \div b.threads]

\* Base decisions off of real time if requested by this benchmark.
Seconds(r) ==
  IF b.use_manual_time THEN r.manual_time_used
  ELSE IF b.use_real_time THEN r.real_time_used
  ELSE r.cpu_time_used

ShouldReportNoError(r, n, rep) ==
  \/ rep > 0
  \/ has_explicit_iteration_count
  \/ n >= kMaxIterations
  \/ Seconds(r) >= min_time
  \/ (r.real_time_used >= 5 * min_time /\ ~b.use_manual_time)

ShouldReportNoRepetition(r, n, rep) ==
  \/ has_explicit_iteration_count
  \/ r.has_error_
  \/ n >= kMaxIterations
  \/ Seconds(r) >= min_time
  \/ (r.real_time_used >= 5 * min_time /\ ~b.use_manual_time)

ShouldReportNoExplicit(r, n, rep) ==
  \/ rep > 0
  \/ r.has_error_
  \/ n >= kMaxIterations
  \/ Seconds(r) >= min_time
  \/ (r.real_time_used >= 5 * min_time /\ ~b.use_manual_time)

ShouldReportNoCeiling(r, n, rep) ==
  \/ rep > 0
  \/ has_explicit_iteration_count
  \/ r.has_error_
  \/ Seconds(r) >= min_time
  \/ (r.real_time_used >= 5 * min_time /\ ~b.use_manual_time)

ShouldReportNoManualGuard(r, n, rep) ==
  \/ rep > 0
  \/ has_explicit_iteration_count
  \/ r.has_error_
  \/ n >= kMaxIterations
  \/ Seconds(r) >= min_time
  \/ r.real_time_used >= 5 * min_time

ShouldReport(r, n, rep) ==
  \/ rep > 0
  \/ has_explicit_iteration_count
  \/ r.has_error_
  \/ n >= kMaxIterations
  \/ Seconds(r) >= min_time
  \/ (r.real_time_used >= 5 * min_time /\ ~b.use_manual_time)

\* The multiplier with a floor of 2 on every value.
MultiplierAtLeastTwo(seconds) ==
  LET num == 14 * min_time
      den == 10 * Max(seconds, 1)
      is_significant == seconds * 10 > min_time
      capped == IF is_significant \/ num <= 10 * den
                THEN <<num, den>> ELSE <<10, 1>>
  IN IF capped[1] <= 2 * capped[2] THEN <<2, 1>> ELSE capped

\* min_time * 1.4 / max(seconds, 1e-9), capped at 10 unless the last run took
\* more than 10% of min_time, and set to 2 when it is at most 1.
Multiplier(seconds) ==
  LET num == 14 * min_time
      den == 10 * Max(seconds, 1)
      is_significant == seconds * 10 > min_time
      capped == IF is_significant \/ num <= 10 * den
                THEN <<num, den>> ELSE <<10, 1>>
  IN IF capped[1] <= capped[2] THEN <<2, 1>> ELSE capped

\* next_iters = max(multiplier * iters, iters + 1.0), clamped to
\* kMaxIterations, then static_cast<int>(next_iters + 0.5).  The product is
\* formed as quotient and remainder so that no intermediate value exceeds
\* kMaxIterations by more than the multiplier's numerator.
NextItersNoFloor(n, m) ==
  LET num == m[1]
      den == m[2]
      q == n \div den
      r == n % den
  IN IF q > kMaxIterations \div num THEN kMaxIterations
     ELSE LET whole == q * num + (r * num) \div den
              frac == (r * num) % den
          IN IF whole > kMaxIterations \/ (whole = kMaxIterations /\ frac > 0)
             THEN kMaxIterations
             ELSE whole + (IF 2 * frac >= den THEN 1 ELSE 0)

NextIters(n, m) ==
  LET num == m[1]
      den == m[2]
      q == n \div den
      r == n % den
  IN IF q > kMaxIterations \div num THEN kMaxIterations
     ELSE LET whole == q * num + (r * num) \div den
              frac == (r * num) % den
          IN IF whole < n + 1 THEN Min(n + 1, kMaxIterations)
             ELSE IF whole > kMaxIterations
                     \/ (whole = kMaxIterations /\ frac > 0)
             THEN kMaxIterations
             ELSE whole + (IF 2 * frac >= den THEN 1 ELSE 0)

\* CreateRunReport: the fields of the run record the controller decides.
\* The fields of a run record that ComputeStats and the reporter read.  A
\* field that is absent from the record is <<>>; an error record has neither
\* times nor counters.
CreateRunReport(r, n) ==
  [name |-> b.name,
   kind |-> IF r.has_error_ THEN "error" ELSE "normal",
   iterations |-> n * b.threads,
   error_message |-> IF r.has_error_ THEN r.error_message_ ELSE "",
   real_accumulated_time |->
     IF r.has_error_ THEN <<>>
     ELSE <<IF b.use_manual_time THEN r.manual_time_used
            ELSE r.real_time_used>>,
   cpu_accumulated_time |->
     IF r.has_error_ THEN <<>> ELSE <<r.cpu_time_used>>,
   counters |-> IF r.has_error_ THEN <<>> ELSE << <<>> >>]

\* A run record without measurements: an error record, or no record at all.
\* A quotient is the pair <<dividend, divisor>>.
NoFigures ==
  [iterations |-> <<>>, bytes_per_second |-> <<>>, items_per_second |-> <<>>,
   real_accumulated_time |-> <<>>, real_iteration_time |-> <<>>,
   cpu_accumulated_time |-> <<>>, cpu_iteration_time |-> <<>>,
   complexity_n |-> <<>>]

RunReportFiguresPerThread(r, n, seconds) ==
  IF r.has_error_ THEN [NoFigures EXCEPT !.iterations = <<n * b.threads>>]
  ELSE LET real_time == IF b.use_manual_time THEN r.manual_time_used
                        ELSE r.real_time_used
       IN [iterations |-> <<n * b.threads>>,
           bytes_per_second |->
             IF r.bytes_processed > 0 /\ seconds > 0
             THEN <<r.bytes_processed, seconds>> ELSE <<>>,
           items_per_second |->
             IF r.items_processed > 0 /\ seconds > 0
             THEN <<r.items_processed, seconds>> ELSE <<>>,
           real_accumulated_time |-> <<real_time>>,
           real_iteration_time |-> <<real_time, n>>,
           cpu_accumulated_time |-> <<r.cpu_time_used>>,
           cpu_iteration_time |-> <<r.cpu_time_used, n>>,
           complexity_n |->
             IF r.complexity_n /= 0 THEN <<r.complexity_n>> ELSE <<>>]

\* CreateRunReport: the measurements of the run record.  Times are reported
\* in ticks (time unit kNanosecond).
RunReportFigures(r, n, seconds) ==
  LET iterations_ == n * b.threads
  IN IF r.has_error_ THEN [NoFigures EXCEPT !.iterations = <<iterations_>>]
     ELSE LET real_time == IF b.use_manual_time THEN r.manual_time_used
                           ELSE r.real_time_used
          IN [iterations |-> <<iterations_>>,
              bytes_per_second |->
                IF r.bytes_processed > 0 /\ seconds > 0
                THEN <<r.bytes_processed, seconds>> ELSE <<>>,
              items_per_second |->
                IF r.items_processed > 0 /\ seconds > 0
                THEN <<r.items_processed, seconds>> ELSE <<>>,
              real_accumulated_time |-> <<real_time>>,
              real_iteration_time |-> <<real_time, iterations_>>,
              cpu_accumulated_time |-> <<r.cpu_time_used>>,
              cpu_iteration_time |-> <<r.cpu_time_used, iterations_>>,
              complexity_n |->
                IF r.complexity_n /= 0 THEN <<r.complexity_n>> ELSE <<>>]

\* ComputeStats: nothing with fewer than 2 non-error records, else one
\* record per configured statistic.
ErrorCount(reports) ==
  Cardinality({i \in 1..Len(reports) : reports[i].kind = "error"})

\* The reducers.  A reducer's value is the exact quotient <<dividend,
\* divisor>> of what the code computes in doubles; a standard deviation is
\* <<"Sqrt", dividend, divisor>>, the square root of that quotient.
RECURSIVE StatisticsSum(_)
StatisticsSum(v) ==
  IF Len(v) = 0 THEN 0 ELSE v[1] + StatisticsSum(Tail(v))

StatisticsMean(v) ==
  IF Len(v) = 0 THEN <<0, 1>> ELSE <<StatisticsSum(v), Len(v)>>

\* std::partial_sort_copy into k slots: the k smallest elements, ascending.
RECURSIVE PartialSortCopy(_, _)
PartialSortCopy(v, k) ==
  IF k = 0 \/ Len(v) = 0 THEN <<>>
  ELSE LET i == CHOOSE i \in 1..Len(v) : \A j \in 1..Len(v) : v[i] <= v[j]
           rest == [j \in 1..(Len(v) - 1) |-> IF j < i THEN v[j] ELSE v[j + 1]]
       IN <<v[i]>> \o PartialSortCopy(rest, k - 1)

StatisticsMedianNoSort(v) ==
  IF Len(v) < 3 THEN StatisticsMean(v)
  ELSE LET n == 1 + (Len(v) \div 2)
       IN IF Len(v) % 2 = 1 THEN <<v[n], 1>> ELSE <<v[n - 1] + v[n], 2>>

StatisticsMedian(v) ==
  IF Len(v) < 3 THEN StatisticsMean(v)
  ELSE LET partial == PartialSortCopy(v, 1 + (Len(v) \div 2))
           n == Len(partial)
       IN IF Len(v) % 2 = 1 THEN <<partial[n], 1>>
          ELSE <<partial[n - 1] + partial[n], 2>>

SumSquares(v) == StatisticsSum([i \in 1..Len(v) |-> v[i] * v[i]])

\* Sqrt(size / (size - 1) * (avg_squares - Sqr(mean))), the radicand
\* clamped at 0.
StatisticsStdDev(v) ==
  IF Len(v) = 0 THEN StatisticsMean(v)
  ELSE IF Len(v) = 1 THEN <<0, 1>>
  ELSE LET sum == StatisticsSum(v)
       IN <<"Sqrt", Max(Len(v) * SumSquares(v) - sum * sum, 0),
            Len(v) * (Len(v) - 1)>>

\* The reducer a test registers under the empty name: v.back().
UserStatistics(v) == <<v[Len(v)], 1>>

\* b.info->statistics: the three reducers every family starts with, and the
\* same list after ComputeStatistics("", UserStatistics).
DefaultStatistics ==
  <<[name_ |-> "mean", compute_ |-> "StatisticsMean"],
    [name_ |-> "median", compute_ |-> "StatisticsMedian"],
    [name_ |-> "stddev", compute_ |-> "StatisticsStdDev"]>>

WithUserStatistics ==
  Append(DefaultStatistics, [name_ |-> "", compute_ |-> "UserStatistics"])

Compute(Stat, v) ==
  CASE Stat.compute_ = "StatisticsMean" -> StatisticsMean(v)
    [] Stat.compute_ = "StatisticsMedian" -> StatisticsMedian(v)
    [] Stat.compute_ = "StatisticsStdDev" -> StatisticsStdDev(v)
    [] Stat.compute_ = "UserStatistics" -> UserStatistics(v)

NotError(run) == run.kind /= "error"

ComputeStatsOfRuns(runs, reports, stats) ==
  LET real_accumulated_time_stat ==
        [i \in 1..Len(runs) |-> runs[i].real_accumulated_time[1]]
      cpu_accumulated_time_stat ==
        [i \in 1..Len(runs) |-> runs[i].cpu_accumulated_time[1]]
  IN [i \in 1..Len(stats) |->
        [name |-> reports[1].name \o "_" \o stats[i].name_,
         kind |-> "statistic",
         iterations |-> reports[1].iterations,
         error_message |-> "",
         real_accumulated_time |->
           <<Compute(stats[i], real_accumulated_time_stat)>>,
         cpu_accumulated_time |->
           <<Compute(stats[i], cpu_accumulated_time_stat)>>,
         counters |-> << <<>> >>]]

ComputeStatsFromOne(reports, stats) ==
  IF Len(reports) - ErrorCount(reports) < 1 THEN <<>>
  ELSE ComputeStatsOfRuns(SelectSeq(reports, NotError), reports, stats)

ComputeStats(reports, stats) ==
  IF Len(reports) - ErrorCount(reports) < 2 THEN <<>>
  ELSE ComputeStatsOfRuns(SelectSeq(reports, NotError), reports, stats)

\* ComputeStats reads r.at("counters") of every record once it has 2 non-error
\* records; an error record has no such field and the lookup throws.
ComputeStatsThrows(reports) ==
  /\ Len(reports) - ErrorCount(reports) >= 2
  /\ ErrorCount(reports) > 0

\* ComputeBigO: null with fewer than 2 inputs, else one complexity record.
ComputeBigO(reports) ==
  IF Len(reports) < 2 THEN <<>>
  ELSE <<[kind |-> "complexity", iterations |-> 0, error_message |-> ""]>>

\* The reports earlier instances of the same family left in
\* *complexity_reports (RunBenchmarks passes one list through all instances;
\* RunBenchmark passes nullptr, i.e. an empty list).
PriorReports(k) ==
  [i \in 1..k |-> [kind |-> "normal", iterations |-> 1, error_message |-> ""]]

Instances ==
  [threads : ThreadCounts,
   benchmark : Bodies,
   iterations : PinnedIterations,
   min_time : MinTimes,
   repetitions : {0, MaxReps},
   use_real_time : BOOLEAN,
   use_manual_time : BOOLEAN,
   complexity : {oNone, oN},
   last_benchmark_instance : BOOLEAN,
   statistics : {DefaultStatistics},
   name : {"BM"},
   report_mode : {RM_Unspecified}]

\* What the registration builders allow: MinTime and Iterations exclude each
\* other, and so do UseRealTime and UseManualTime.
ValidInstance(i) ==
  /\ ~(i.use_real_time /\ i.use_manual_time)
  /\ ~(i.iterations /= 0 /\ i.min_time /= 0)

\* The controller's locals when RunSingleBenchmarkImp starts on b.
CtlStart ==
  /\ cpc = "attempt"
  /\ iters = InitialIters
  /\ repetition_num = 0
  /\ results = NoResult
  /\ attempt_iters = 0
  /\ attempt_rep = 0
  /\ should_report = FALSE
  /\ attempts = 0
  /\ retries = 0
  /\ run_reports = <<>>
  /\ \E k \in {0, MaxPrior} :
       complexity_reports = IF b.complexity /= oNone
                            THEN PriorReports(k) ELSE <<>>
  /\ stat_reports = <<>>
  /\ json_report = NoFigures
  /\ report_aggregates_only = FALSE
  /\ printed = <<>>
  /\ NoCall
  /\ NoObjects

CtlInit ==
  /\ b \in {i \in Instances : ValidInstance(i)}
  /\ flags \in [benchmark_min_time : FlagMinTimes,
                benchmark_repetitions : {1},
                benchmark_report_aggregates_only : {FALSE}]
  /\ CtlStart

\* One pass of the for(;;) body: run the benchmark with `iters`, then either
\* report and go to the next repetition, or enlarge `iters` and retry.
Attempt(raw) ==
  /\ cpc = "attempt"
  /\ repetition_num < repeats
  /\ LET r == Normalize(raw)
         report == CreateRunReport(r, iters)
         accept == ShouldReport(r, iters, repetition_num)
     IN /\ results' = r
        /\ attempt_iters' = iters
        /\ attempt_rep' = repetition_num
        /\ should_report' = accept
        /\ json_report' = IF accept THEN RunReportFigures(r, iters, Seconds(r))
                          ELSE NoFigures
        /\ IF accept
           THEN /\ run_reports' = Append(run_reports, report)
                /\ complexity_reports' =
                     IF report.kind /= "error" /\ b.complexity /= oNone
                     THEN Append(complexity_reports, report)
                     ELSE complexity_reports
                /\ repetition_num' = repetition_num + 1
                /\ attempts' = 0
                /\ UNCHANGED <<iters, retries>>
           ELSE /\ iters' = NextIters(iters, Multiplier(Seconds(r)))
                /\ attempts' = attempts + 1
                /\ retries' = retries + 1
                /\ UNCHANGED <<run_reports, complexity_reports, repetition_num>>
  /\ UNCHANGED <<b, flags, cpc, stat_reports, report_aggregates_only,
                 printed, call_args, call_value, objVars>>

RunAttempt ==
  \E cpu \in CpuTimes, real \in RealTimes, manual \in ManualTimes,
     err \in BOOLEAN, msg \in Msgs :
    Attempt([real_time_used |-> real * b.threads,
             cpu_time_used |-> cpu,
             manual_time_used |-> manual * b.threads,
             bytes_processed |-> 0, items_processed |-> 0,
             complexity_n |-> 0,
             has_error_ |-> err,
             error_message_ |-> IF err THEN msg ELSE ""])

ReportAggregatesOnly ==
  /\ repeats /= 1
  /\ IF b.report_mode = RM_Unspecified
     THEN flags.benchmark_report_aggregates_only
     ELSE b.report_mode = RM_ReportAggregatesOnly

FinishKeepsInputs ==
  /\ cpc = "attempt"
  /\ repetition_num >= repeats
  /\ IF ComputeStatsThrows(run_reports)
     THEN /\ cpc' = "terminated"
          /\ UNCHANGED <<stat_reports, report_aggregates_only>>
     ELSE /\ cpc' = "done"
          /\ report_aggregates_only' = ReportAggregatesOnly
          /\ LET stats == ComputeStats(run_reports, b.statistics)
                 bigo == IF b.complexity /= oNone /\ b.last_benchmark_instance
                         THEN ComputeBigO(complexity_reports) ELSE <<>>
             IN stat_reports' = stats \o bigo
  /\ UNCHANGED <<b, flags, iters, repetition_num, results, attempt_iters,
                 attempt_rep, should_report, attempts, retries, run_reports,
                 complexity_reports, json_report, printed, call_args,
                 call_value, objVars>>

\* After the last repetition: statistics, then the family's complexity fit
\* when this instance is the last of a complexity-tracked family.
Finish ==
  /\ cpc = "attempt"
  /\ repetition_num >= repeats
  /\ IF ComputeStatsThrows(run_reports)
     THEN /\ cpc' = "terminated"
          /\ UNCHANGED <<stat_reports, complexity_reports,
                         report_aggregates_only>>
     ELSE /\ cpc' = "done"
          /\ report_aggregates_only' = ReportAggregatesOnly
          /\ LET stats == ComputeStats(run_reports, b.statistics)
                 bigo == IF b.complexity /= oNone /\ b.last_benchmark_instance
                         THEN ComputeBigO(complexity_reports) ELSE <<>>
             IN /\ stat_reports' = stats \o bigo
                /\ complexity_reports' =
                     IF b.complexity /= oNone /\ b.last_benchmark_instance
                     THEN <<>> ELSE complexity_reports
  /\ UNCHANGED <<b, flags, iters, repetition_num, results, attempt_iters,
                 attempt_rep, should_report, attempts, retries, run_reports,
                 json_report, printed, call_args, call_value, objVars>>

CtlNext == RunAttempt \/ Finish

\* ------------------------------------------------------------------------
\* One attempt: ThreadManager, Barrier, State, RunInThread
\* ------------------------------------------------------------------------
Threads == 0..(NumThreads - 1)

VARIABLES
  max_iterations,     \* the attempt's per-thread iteration count
  contrib,            \* what each thread's timer and State hold at the merge
  pc,                 \* position of each thread
  ret,                \* where a thread's SkipWithError returns to
  loop,               \* "while" (KeepRunning) or "for" (range-for) loop
  started_, finished_, error_occurred_, total_iterations_,   \* State
  cached_,            \* the range-for iterator's remaining count
  skip_msg,           \* argument of the SkipWithError call in progress
  running_,           \* ThreadTimer::running_
  running_threads_, entered_, phase_number_,   \* Barrier
  phase_number_cp,    \* each waiter's copy of the phase number
  benchmark_mutex_,   \* set of threads holding the Result mutex
  mresults,           \* manager->results
  alive_threads_,
  end_cond_mutex_,    \* set of threads holding the end-condition mutex
  sleeping,           \* threads blocked in end_condition_.wait
  waits,              \* history: barrier waits each thread has called
  broke,              \* history: thread left its range-for by break
  timer_started       \* history: thread has started its timer

thrVars == <<max_iterations, contrib, pc, ret, loop, started_, finished_,
             error_occurred_, total_iterations_, cached_, skip_msg, running_,
             running_threads_, entered_, phase_number_, phase_number_cp,
             benchmark_mutex_, mresults, alive_threads_, end_cond_mutex_,
             sleeping, waits, broke, timer_started>>

vars == <<ctlVars, thrVars>>

attemptVars == <<max_iterations, contrib>>
stateVars == <<started_, finished_, error_occurred_, total_iterations_,
               cached_, running_, timer_started>>
barrierVars == <<running_threads_, entered_, phase_number_, phase_number_cp,
                 waits>>
endVars == <<alive_threads_, end_cond_mutex_, sleeping>>

\* What a thread's ThreadTimer and State hold when its body has measured and
\* counted nothing.
NoContribution ==
  [cpu_time_used |-> 0, real_time_used |-> 0, manual_time_used |-> 0,
   bytes_processed |-> 0, items_processed |-> 0, complexity_length_n |-> 0]

\* State::State and ThreadManager::ThreadManager for an attempt of n
\* iterations.
NewAttempt(n) ==
  /\ max_iterations = n
  /\ contrib = [t \in Threads |-> NoContribution]
  /\ pc = [t \in Threads |-> "body"]
  /\ ret = [t \in Threads |-> "body"]
  /\ loop = [t \in Threads |-> "none"]
  /\ started_ = [t \in Threads |-> FALSE]
  /\ finished_ = [t \in Threads |-> FALSE]
  /\ error_occurred_ = [t \in Threads |-> FALSE]
  /\ total_iterations_ = [t \in Threads |-> n + 1]
  /\ cached_ = [t \in Threads |-> 0]
  /\ skip_msg = [t \in Threads |-> ""]
  /\ running_ = [t \in Threads |-> FALSE]
  /\ running_threads_ = NumThreads
  /\ entered_ = 0
  /\ phase_number_ = 0
  /\ phase_number_cp = [t \in Threads |-> 0]
  /\ benchmark_mutex_ = {}
  /\ mresults = NoResult
  /\ alive_threads_ = NumThreads
  /\ end_cond_mutex_ = {}
  /\ sleeping = {}
  /\ waits = [t \in Threads |-> 0]
  /\ broke = [t \in Threads |-> FALSE]
  /\ timer_started = [t \in Threads |-> FALSE]

ThrInit == \E n \in 1..MaxIters : NewAttempt(n)

\* The controller's state while the attempt model runs: one instance with
\* NumThreads threads.
CtlIdle ==
  /\ b = [threads |-> NumThreads, benchmark |-> "steps", iterations |-> 0,
          min_time |-> 0, repetitions |-> 0, use_real_time |-> FALSE,
          use_manual_time |-> FALSE, complexity |-> oNone,
          last_benchmark_instance |-> FALSE,
          statistics |-> DefaultStatistics, name |-> "BM",
          report_mode |-> RM_Unspecified]
  /\ flags = [benchmark_min_time |-> 10, benchmark_repetitions |-> 1,
              benchmark_report_aggregates_only |-> FALSE]
  /\ cpc = "attempt"
  /\ iters = 1
  /\ repetition_num = 0
  /\ results = NoResult
  /\ attempt_iters = 0
  /\ attempt_rep = 0
  /\ should_report = FALSE
  /\ attempts = 0
  /\ retries = 0
  /\ run_reports = <<>>
  /\ complexity_reports = <<>>
  /\ stat_reports = <<>>
  /\ json_report = NoFigures
  /\ report_aggregates_only = FALSE
  /\ printed = <<>>
  /\ NoObjects

Goto(t, p) == pc' = [pc EXCEPT ![t] = p]

\* --- Barrier -------------------------------------------------------------
\* wait(), entry: the caller enters the barrier; the last one to enter opens
\* the next phase and leaves at once, the others block.
BarrierWait(t, out) ==
  /\ entered_ < running_threads_
  /\ waits' = [waits EXCEPT ![t] = @ + 1]
  /\ IF entered_ + 1 < running_threads_
     THEN /\ entered_' = entered_ + 1
          /\ phase_number_cp' = [phase_number_cp EXCEPT ![t] = phase_number_]
          /\ Goto(t, "barrier")
          /\ UNCHANGED phase_number_
     ELSE /\ entered_' = 0
          /\ phase_number_' = phase_number_ + 1
          /\ Goto(t, out)
          /\ UNCHANGED phase_number_cp
  /\ UNCHANGED running_threads_

\* wait(), release: a blocked caller leaves once the phase has advanced, or
\* once every thread still running has entered (a thread was removed).
BarrierRelease(t) ==
  /\ pc[t] = "barrier"
  /\ \/ phase_number_ > phase_number_cp[t]
     \/ entered_ = running_threads_
  /\ IF phase_number_ > phase_number_cp[t]
     THEN UNCHANGED <<entered_, phase_number_>>
     ELSE /\ entered_' = 0
          /\ phase_number_' = phase_number_ + 1
  /\ Goto(t, IF finished_[t] THEN "after_loop" ELSE "resume")
  /\ UNCHANGED <<attemptVars, ret, loop, stateVars, skip_msg,
                 running_threads_, phase_number_cp, waits, benchmark_mutex_,
                 mresults, endVars, broke>>

\* removeThread(): one thread fewer is expected at the barrier.
removeThread == running_threads_' = running_threads_ - 1

\* --- State ---------------------------------------------------------------
\* iterations(): (max_iterations - total_iterations_) + 1.
iterations(t) == (max_iterations - total_iterations_[t]) + 1

\* The body calls SkipWithError(msg) and continues at r afterwards.
CallSkipWithError(t, msg, r) ==
  /\ skip_msg' = [skip_msg EXCEPT ![t] = msg]
  /\ ret' = [ret EXCEPT ![t] = r]
  /\ Goto(t, "skip")

\* SkipWithError, up to the acquisition of the Result mutex.
SkipWithErrorLock(t) ==
  /\ pc[t] = "skip"
  /\ benchmark_mutex_ = {}
  /\ error_occurred_' = [error_occurred_ EXCEPT ![t] = TRUE]
  /\ benchmark_mutex_' = {t}
  /\ Goto(t, "skip_locked")
  /\ UNCHANGED <<attemptVars, ret, loop, started_, finished_,
                 total_iterations_, cached_, running_, timer_started,
                 skip_msg, barrierVars, mresults, endVars, broke>>

RecordErrorAlways(r, msg) ==
  [r EXCEPT !.error_message_ = msg, !.has_error_ = TRUE]

\* if (has_error_ == false) { error_message_ = msg; has_error_ = true; }
RecordError(r, msg) ==
  IF r.has_error_ = FALSE
  THEN [r EXCEPT !.error_message_ = msg, !.has_error_ = TRUE]
  ELSE r

SkipWithErrorKeepsTimer(t) ==
  /\ pc[t] = "skip_locked"
  /\ mresults' = RecordError(mresults, skip_msg[t])
  /\ benchmark_mutex_' = {}
  /\ total_iterations_' = [total_iterations_ EXCEPT ![t] = 1]
  /\ Goto(t, ret[t])
  /\ UNCHANGED <<attemptVars, ret, loop, started_, finished_, running_,
                 error_occurred_, cached_, timer_started, skip_msg,
                 barrierVars, endVars, broke>>

\* SkipWithError, from the guarded write to its return.
SkipWithErrorWrite(t) ==
  /\ pc[t] = "skip_locked"
  /\ mresults' = RecordError(mresults, skip_msg[t])
  /\ benchmark_mutex_' = {}
  /\ total_iterations_' = [total_iterations_ EXCEPT ![t] = 1]
  /\ running_' = [running_ EXCEPT ![t] = FALSE]
  /\ Goto(t, ret[t])
  /\ UNCHANGED <<attemptVars, ret, loop, started_, finished_,
                 error_occurred_, cached_, timer_started, skip_msg,
                 barrierVars, endVars, broke>>

StartKeepRunningNoBarrier(t) ==
  /\ pc[t] = "start"
  /\ ~started_[t] /\ ~finished_[t]
  /\ started_' = [started_ EXCEPT ![t] = TRUE]
  /\ Goto(t, "resume")
  /\ UNCHANGED <<attemptVars, ret, loop, finished_, error_occurred_,
                 total_iterations_, cached_, running_, timer_started,
                 skip_msg, barrierVars, benchmark_mutex_, mresults, endVars,
                 broke>>

\* StartKeepRunning, up to the barrier.
StartKeepRunning(t) ==
  /\ pc[t] = "start"
  /\ ~started_[t] /\ ~finished_[t]
  /\ started_' = [started_ EXCEPT ![t] = TRUE]
  /\ BarrierWait(t, "resume")
  /\ UNCHANGED <<attemptVars, ret, loop, finished_, error_occurred_,
                 total_iterations_, cached_, running_, timer_started,
                 skip_msg, benchmark_mutex_, mresults, endVars, broke>>

\* StartKeepRunning, after the barrier: if (!error_occurred_) ResumeTiming().
StartKeepRunningResume(t) ==
  /\ pc[t] = "resume"
  /\ IF ~error_occurred_[t]
     THEN /\ started_[t] /\ ~finished_[t]
          /\ running_' = [running_ EXCEPT ![t] = TRUE]
          /\ timer_started' = [timer_started EXCEPT ![t] = TRUE]
     ELSE UNCHANGED <<running_, timer_started>>
  /\ Goto(t, IF loop[t] = "while" THEN "kr" ELSE "for_test")
  /\ UNCHANGED <<attemptVars, ret, loop, started_, finished_,
                 error_occurred_, total_iterations_, cached_, skip_msg,
                 barrierVars, benchmark_mutex_, mresults, endVars, broke>>

\* FinishKeepRunning, up to the barrier.
FinishKeepRunning(t) ==
  /\ pc[t] = "finish"
  /\ started_[t] /\ (~finished_[t] \/ error_occurred_[t])
  /\ IF ~error_occurred_[t]
     THEN /\ running_[t]
          /\ running_' = [running_ EXCEPT ![t] = FALSE]
     ELSE UNCHANGED running_
  /\ total_iterations_' = [total_iterations_ EXCEPT ![t] = 1]
  /\ finished_' = [finished_ EXCEPT ![t] = TRUE]
  /\ BarrierWait(t, "after_loop")
  /\ UNCHANGED <<attemptVars, ret, loop, started_, error_occurred_,
                 cached_, timer_started, skip_msg, benchmark_mutex_,
                 mresults, endVars, broke>>

\* KeepRunning(): StartKeepRunning on the first call; then the countdown,
\* and FinishKeepRunning when it reaches zero.
KeepRunning(t) ==
  /\ pc[t] = "kr"
  /\ IF ~started_[t]
     THEN /\ Goto(t, "start")
          /\ UNCHANGED total_iterations_
     ELSE /\ total_iterations_' = [total_iterations_ EXCEPT ![t] = @ - 1]
          /\ Goto(t, IF total_iterations_[t] - 1 /= 0 THEN "iter" ELSE "finish")
  /\ UNCHANGED <<attemptVars, ret, loop, started_, finished_,
                 error_occurred_, cached_, running_, timer_started, skip_msg,
                 barrierVars, benchmark_mutex_, mresults, endVars, broke>>

\* The range-for loop's test, It != End: FinishKeepRunning once the
\* iterator's count is used up.
ForTest(t) ==
  /\ pc[t] = "for_test"
  /\ Goto(t, IF cached_[t] /= 0 THEN "iter" ELSE "finish")
  /\ UNCHANGED <<attemptVars, ret, loop, stateVars, skip_msg, barrierVars,
                 benchmark_mutex_, mresults, endVars, broke>>

\* --- Benchmark bodies ------------------------------------------------------
\* Before the loop: nothing, or SkipWithError (BM_error_before_running).
BodyStart(t) ==
  /\ pc[t] = "body"
  /\ \/ /\ Goto(t, "loop")
        /\ UNCHANGED <<skip_msg, ret>>
     \/ \E msg \in Msgs : CallSkipWithError(t, msg, "loop")
  /\ UNCHANGED <<attemptVars, loop, stateVars, barrierVars,
                 benchmark_mutex_, mresults, endVars, broke>>

\* while (state.KeepRunning()) ...
LoopWhile(t) ==
  /\ pc[t] = "loop"
  /\ loop' = [loop EXCEPT ![t] = "while"]
  /\ Goto(t, "kr")
  /\ UNCHANGED <<attemptVars, ret, stateVars, skip_msg, barrierVars,
                 benchmark_mutex_, mresults, endVars, broke>>

\* for (auto It = state.begin(), End = state.end(); It != End; ++It) ...:
\* begin() takes the count (0 after an error), end() is StartKeepRunning.
LoopFor(t) ==
  /\ pc[t] = "loop"
  /\ loop' = [loop EXCEPT ![t] = "for"]
  /\ cached_' = [cached_ EXCEPT ![t] =
                   IF error_occurred_[t] THEN 0 ELSE max_iterations]
  /\ Goto(t, "start")
  /\ UNCHANGED <<attemptVars, ret, started_, finished_, error_occurred_,
                 total_iterations_, running_, timer_started, skip_msg,
                 barrierVars, benchmark_mutex_, mresults, endVars, broke>>

\* One pass of the loop body: plain work (with or without a PauseTiming /
\* ResumeTiming pair), or SkipWithError with the timer running
\* (BM_error_during_running) or paused (BM_error_while_paused).
Iteration(t) ==
  /\ pc[t] = "iter"
  /\ \/ /\ Goto(t, IF loop[t] = "while" THEN "kr" ELSE "for_test")
        /\ cached_' = [cached_ EXCEPT ![t] =
                         IF loop[t] = "for" THEN @ - 1 ELSE @]
        /\ UNCHANGED <<skip_msg, ret, running_>>
     \/ /\ \E msg \in Msgs :
             CallSkipWithError(t, msg,
                               IF loop[t] = "while" THEN "kr" ELSE "skipped")
        /\ \/ UNCHANGED running_
           \/ /\ ~error_occurred_[t]
              /\ running_[t]
              /\ running_' = [running_ EXCEPT ![t] = FALSE]
        /\ UNCHANGED cached_
  /\ UNCHANGED <<attemptVars, loop, started_, finished_, error_occurred_,
                 total_iterations_, timer_started, barrierVars,
                 benchmark_mutex_, mresults, endVars, broke>>

\* After SkipWithError in a range-for body: break (the loop does not end by
\* itself), or go on with ++It.
ForSkipped(t) ==
  /\ pc[t] = "skipped"
  /\ \/ /\ broke' = [broke EXCEPT ![t] = TRUE]
        /\ Goto(t, "after_loop")
        /\ UNCHANGED cached_
     \/ /\ cached_' = [cached_ EXCEPT ![t] = @ - 1]
        /\ Goto(t, "for_test")
        /\ UNCHANGED broke
  /\ UNCHANGED <<attemptVars, ret, loop, started_, finished_,
                 error_occurred_, total_iterations_, running_, timer_started,
                 skip_msg, barrierVars, benchmark_mutex_, mresults, endVars>>

\* After the loop: return, or SkipWithError first (BM_error_after_running).
AfterLoop(t) ==
  /\ pc[t] = "after_loop"
  /\ \/ /\ Goto(t, "check")
        /\ UNCHANGED <<skip_msg, ret>>
     \/ \E msg \in Msgs : CallSkipWithError(t, msg, "check")
  /\ UNCHANGED <<attemptVars, loop, stateVars, barrierVars,
                 benchmark_mutex_, mresults, endVars, broke>>

\* --- RunInThread, after b->benchmark->Run(st) ------------------------------
\* CHECK(st.iterations() == st.max_iterations), then the Result mutex.
RunInThreadLock(t) ==
  /\ pc[t] = "check"
  /\ iterations(t) = max_iterations
  /\ benchmark_mutex_ = {}
  /\ benchmark_mutex_' = {t}
  /\ Goto(t, "merge")
  /\ UNCHANGED <<attemptVars, ret, loop, stateVars, skip_msg, barrierVars,
                 mresults, endVars, broke>>

MergeResultsLastCount(r, c) ==
  [r EXCEPT !.cpu_time_used = @ + c.cpu_time_used,
            !.real_time_used = @ + c.real_time_used,
            !.manual_time_used = @ + c.manual_time_used,
            !.bytes_processed = c.bytes_processed,
            !.items_processed = c.items_processed,
            !.complexity_n = c.complexity_length_n]

MergeResultsMaxTime(r, c) ==
  [r EXCEPT !.cpu_time_used = @ + c.cpu_time_used,
            !.real_time_used = Max(@, c.real_time_used),
            !.manual_time_used = Max(@, c.manual_time_used),
            !.bytes_processed = @ + c.bytes_processed,
            !.items_processed = @ + c.items_processed,
            !.complexity_n = @ + c.complexity_length_n]

\* results.cpu_time_used += timer.cpu_time_used(); ... and so on for the
\* real and manual time and for the three counts.
MergeResults(r, c) ==
  [r EXCEPT !.cpu_time_used = @ + c.cpu_time_used,
            !.real_time_used = @ + c.real_time_used,
            !.manual_time_used = @ + c.manual_time_used,
            !.bytes_processed = @ + c.bytes_processed,
            !.items_processed = @ + c.items_processed,
            !.complexity_n = @ + c.complexity_length_n]

\* The merge of the thread's numbers (the timer's accessors require a
\* stopped timer), and the release of the mutex.
RunInThreadMerge(t) ==
  /\ pc[t] = "merge"
  /\ ~running_[t]
  /\ mresults' = MergeResults(mresults, contrib[t])
  /\ benchmark_mutex_' = {}
  /\ Goto(t, "notify")
  /\ UNCHANGED <<attemptVars, ret, loop, stateVars, skip_msg, barrierVars,
                 endVars, broke>>

\* --- ThreadManager ---------------------------------------------------------
NotifyThreadCompleteNoRemove(t) ==
  /\ pc[t] = "notify"
  /\ Goto(t, "decrement")
  /\ UNCHANGED <<attemptVars, ret, loop, stateVars, skip_msg, barrierVars,
                 benchmark_mutex_, mresults, endVars, broke>>

\* NotifyThreadComplete: start_stop_barrier_.removeThread().
NotifyThreadCompleteRemove(t) ==
  /\ pc[t] = "notify"
  /\ removeThread
  /\ Goto(t, "decrement")
  /\ UNCHANGED <<attemptVars, ret, loop, stateVars, skip_msg, entered_,
                 phase_number_, phase_number_cp, waits, benchmark_mutex_,
                 mresults, endVars, broke>>

\* Where a thread goes when RunInThread returns: thread 0 is the controller
\* and goes on to WaitForAllThreads, a pool thread ends.
Returned(t) == IF t = 0 THEN "wait_all" ELSE "exit"

\* NotifyThreadComplete: if (--alive_threads_ == 0) ...
NotifyThreadCompleteDecrement(t) ==
  /\ pc[t] = "decrement"
  /\ alive_threads_' = alive_threads_ - 1
  /\ Goto(t, IF alive_threads_ - 1 = 0 THEN "signal" ELSE Returned(t))
  /\ UNCHANGED <<attemptVars, ret, loop, stateVars, skip_msg, barrierVars,
                 benchmark_mutex_, mresults, end_cond_mutex_, sleeping, broke>>

NotifyThreadCompleteSignalUnlocked(t) ==
  /\ pc[t] = "signal"
  /\ sleeping' = {}
  /\ Goto(t, Returned(t))
  /\ UNCHANGED <<attemptVars, ret, loop, stateVars, skip_msg, barrierVars,
                 benchmark_mutex_, mresults, alive_threads_, end_cond_mutex_,
                 broke>>

\* NotifyThreadComplete: { MutexLock lock(end_cond_mutex_);
\*                         end_condition_.notify_all(); }
NotifyThreadCompleteSignal(t) ==
  /\ pc[t] = "signal"
  /\ end_cond_mutex_ = {}
  /\ sleeping' = {}
  /\ Goto(t, Returned(t))
  /\ UNCHANGED <<attemptVars, ret, loop, stateVars, skip_msg, barrierVars,
                 benchmark_mutex_, mresults, alive_threads_, end_cond_mutex_,
                 broke>>

\* WaitForAllThreads: MutexLock lock(end_cond_mutex_), also when the wait
\* takes the mutex again after a wake-up.
WaitForAllThreadsLock(t) ==
  /\ pc[t] = "wait_all" \/ (pc[t] = "asleep" /\ t \notin sleeping)
  /\ end_cond_mutex_ = {}
  /\ end_cond_mutex_' = {t}
  /\ Goto(t, "wait_test")
  /\ UNCHANGED <<attemptVars, ret, loop, stateVars, skip_msg, barrierVars,
                 benchmark_mutex_, mresults, alive_threads_, sleeping, broke>>

\* The wait's predicate: alive_threads_ == 0.
WaitPredicate == alive_threads_ = 0

\* WaitForAllThreads: the predicate, tested with the mutex held; the call
\* returns (lock released) when it holds.
WaitForAllThreadsTest(t) ==
  /\ pc[t] = "wait_test"
  /\ IF WaitPredicate
     THEN /\ end_cond_mutex_' = {}
          /\ Goto(t, "join")
     ELSE /\ Goto(t, "wait_block")
          /\ UNCHANGED end_cond_mutex_
  /\ UNCHANGED <<attemptVars, ret, loop, stateVars, skip_msg, barrierVars,
                 benchmark_mutex_, mresults, alive_threads_, sleeping, broke>>

\* WaitForAllThreads: the condition variable's wait releases the mutex and
\* blocks in one step.
WaitForAllThreadsBlock(t) ==
  /\ pc[t] = "wait_block"
  /\ end_cond_mutex_' = {}
  /\ sleeping' = sleeping \cup {t}
  /\ Goto(t, "asleep")
  /\ UNCHANGED <<attemptVars, ret, loop, stateVars, skip_msg, barrierVars,
                 benchmark_mutex_, mresults, alive_threads_, broke>>

\* A condition variable may wake a waiter without a notification.
SpuriousWakeup ==
  /\ sleeping /= {}
  /\ sleeping' = {}
  /\ UNCHANGED <<attemptVars, pc, ret, loop, stateVars, skip_msg,
                 barrierVars, benchmark_mutex_, mresults, alive_threads_,
                 end_cond_mutex_, broke>>

JoinPoolNoJoin(t) ==
  /\ pc[t] = "join"
  /\ benchmark_mutex_ = {}
  /\ Goto(t, "collected")
  /\ UNCHANGED <<attemptVars, ret, loop, stateVars, skip_msg, barrierVars,
                 benchmark_mutex_, mresults, endVars, broke>>

\* RunSingleBenchmarkImp after WaitForAllThreads: join the pool, then copy
\* manager->results under the Result mutex and drop the manager.
JoinPool(t) ==
  /\ pc[t] = "join"
  /\ \A u \in Threads \ {t} : pc[u] = "exit"
  /\ benchmark_mutex_ = {}
  /\ Goto(t, "collected")
  /\ UNCHANGED <<attemptVars, ret, loop, stateVars, skip_msg, barrierVars,
                 benchmark_mutex_, mresults, endVars, broke>>

ThreadStep(t) ==
  \/ BodyStart(t) \/ LoopWhile(t) \/ LoopFor(t) \/ KeepRunning(t)
  \/ ForTest(t) \/ Iteration(t) \/ ForSkipped(t) \/ AfterLoop(t)
  \/ SkipWithErrorLock(t) \/ SkipWithErrorWrite(t)
  \/ StartKeepRunning(t) \/ BarrierRelease(t) \/ StartKeepRunningResume(t)
  \/ FinishKeepRunning(t)
  \/ RunInThreadLock(t) \/ RunInThreadMerge(t)
  \/ NotifyThreadCompleteRemove(t) \/ NotifyThreadCompleteDecrement(t)
  \/ NotifyThreadCompleteSignal(t)
  \/ WaitForAllThreadsLock(t) \/ WaitForAllThreadsTest(t)
  \/ WaitForAllThreadsBlock(t) \/ JoinPool(t)

ThrNext == (\E t \in Threads : ThreadStep(t)) \/ SpuriousWakeup

Init == CtlInit /\ NewAttempt(1)

Next ==
  \/ RunAttempt /\ UNCHANGED thrVars
  \/ Finish /\ UNCHANGED thrVars

InitThreads == CtlIdle /\ NoCall /\ ThrInit

NextThreads ==
  \/ \E t \in Threads : BodyStart(t) /\ UNCHANGED ctlVars
  \/ \E t \in Threads : LoopWhile(t) /\ UNCHANGED ctlVars
  \/ \E t \in Threads : LoopFor(t) /\ UNCHANGED ctlVars
  \/ \E t \in Threads : KeepRunning(t) /\ UNCHANGED ctlVars
  \/ \E t \in Threads : ForTest(t) /\ UNCHANGED ctlVars
  \/ \E t \in Threads : Iteration(t) /\ UNCHANGED ctlVars
  \/ \E t \in Threads : ForSkipped(t) /\ UNCHANGED ctlVars
  \/ \E t \in Threads : AfterLoop(t) /\ UNCHANGED ctlVars
  \/ \E t \in Threads : SkipWithErrorLock(t) /\ UNCHANGED ctlVars
  \/ \E t \in Threads : SkipWithErrorWrite(t) /\ UNCHANGED ctlVars
  \/ \E t \in Threads : StartKeepRunning(t) /\ UNCHANGED ctlVars
  \/ \E t \in Threads : BarrierRelease(t) /\ UNCHANGED ctlVars
  \/ \E t \in Threads : StartKeepRunningResume(t) /\ UNCHANGED ctlVars
  \/ \E t \in Threads : FinishKeepRunning(t) /\ UNCHANGED ctlVars
  \/ \E t \in Threads : RunInThreadLock(t) /\ UNCHANGED ctlVars
  \/ \E t \in Threads : RunInThreadMerge(t) /\ UNCHANGED ctlVars
  \/ \E t \in Threads : NotifyThreadCompleteRemove(t) /\ UNCHANGED ctlVars
  \/ \E t \in Threads : NotifyThreadCompleteDecrement(t) /\ UNCHANGED ctlVars
  \/ \E t \in Threads : NotifyThreadCompleteSignal(t) /\ UNCHANGED ctlVars
  \/ \E t \in Threads : WaitForAllThreadsLock(t) /\ UNCHANGED ctlVars
  \/ \E t \in Threads : WaitForAllThreadsTest(t) /\ UNCHANGED ctlVars
  \/ \E t \in Threads : WaitForAllThreadsBlock(t) /\ UNCHANGED ctlVars
  \/ \E t \in Threads : JoinPool(t) /\ UNCHANGED ctlVars
  \/ SpuriousWakeup /\ UNCHANGED ctlVars

SpecThreads == InitThreads /\ [][NextThreads]_vars

\* Every thread that can take a step eventually takes one (the scheduler
\* starves no thread).
FairSpecThreads ==
  SpecThreads /\ \A t \in Threads : WF_vars(ThreadStep(t) /\ UNCHANGED ctlVars)

Spec == Init /\ [][Next]_vars

\* The calibration of one instance alone: a single repetition of an instance
\* outside any complexity-tracked family.  Attempts terminate, so the loop
\* always goes on to its next pass.
InitCalibration ==
  /\ Init
  /\ b.repetitions = 0
  /\ b.complexity = oNone
  /\ ~b.last_benchmark_instance

FairSpec == InitCalibration /\ [][Next]_vars /\ WF_vars(Next)

\* ------------------------------------------------------------------------
\* The end of an attempt: merge, completion, normalisation, run record
\* ------------------------------------------------------------------------
\* Times a thread's timer may hold and counts its State may hold when the
\* benchmark body has returned.
MeasuredTimes ==
  {[cpu_time_used |-> 0, real_time_used |-> 0, manual_time_used |-> 0],
   [cpu_time_used |-> 4, real_time_used |-> 6, manual_time_used |-> 2],
   [cpu_time_used |-> 7, real_time_used |-> 12, manual_time_used |-> 10]}

CountedWork ==
  {[bytes_processed |-> 0, items_processed |-> 0, complexity_length_n |-> 0],
   [bytes_processed |-> 8, items_processed |-> 3, complexity_length_n |-> 2],
   [bytes_processed |-> 0, items_processed |-> 5, complexity_length_n |-> 1]}

Contributions ==
  {[cpu_time_used |-> m.cpu_time_used, real_time_used |-> m.real_time_used,
    manual_time_used |-> m.manual_time_used,
    bytes_processed |-> c.bytes_processed,
    items_processed |-> c.items_processed,
    complexity_length_n |-> c.complexity_length_n] :
     m \in MeasuredTimes, c \in CountedWork}

\* Every thread has returned from the benchmark body of the first attempt of
\* an unpinned instance, without error, and is about to merge.
InitMerge ==
  /\ \E basis \in {"cpu", "real", "manual"} :
       b = [threads |-> NumThreads, benchmark |-> "steps", iterations |-> 0,
            min_time |-> 0, repetitions |-> 0,
            use_real_time |-> (basis = "real"),
            use_manual_time |-> (basis = "manual"), complexity |-> oNone,
            last_benchmark_instance |-> FALSE,
          statistics |-> DefaultStatistics, name |-> "BM",
          report_mode |-> RM_Unspecified]
  /\ flags = [benchmark_min_time |-> 10, benchmark_repetitions |-> 1,
              benchmark_report_aggregates_only |-> FALSE]
  /\ cpc = "attempt"
  /\ max_iterations \in 1..MaxIters
  /\ iters = max_iterations
  /\ repetition_num = 0
  /\ results = NoResult
  /\ attempt_iters = 0
  /\ attempt_rep = 0
  /\ should_report = FALSE
  /\ attempts = 0
  /\ retries = 0
  /\ run_reports = <<>>
  /\ complexity_reports = <<>>
  /\ stat_reports = <<>>
  /\ json_report = NoFigures
  /\ report_aggregates_only = FALSE
  /\ printed = <<>>
  /\ NoCall
  /\ NoObjects
  /\ contrib \in [Threads -> Contributions]
  /\ pc = [t \in Threads |-> "check"]
  /\ ret = [t \in Threads |-> "body"]
  /\ loop = [t \in Threads |-> "while"]
  /\ started_ = [t \in Threads |-> TRUE]
  /\ finished_ = [t \in Threads |-> TRUE]
  /\ error_occurred_ = [t \in Threads |-> FALSE]
  /\ total_iterations_ = [t \in Threads |-> 1]
  /\ cached_ = [t \in Threads |-> 0]
  /\ skip_msg = [t \in Threads |-> ""]
  /\ running_ = [t \in Threads |-> FALSE]
  /\ running_threads_ = NumThreads
  /\ entered_ = 0
  /\ phase_number_ = 2
  /\ phase_number_cp = [t \in Threads |-> 0]
  /\ benchmark_mutex_ = {}
  /\ mresults = NoResult
  /\ alive_threads_ = NumThreads
  /\ end_cond_mutex_ = {}
  /\ sleeping = {}
  /\ waits = [t \in Threads |-> 2]
  /\ broke = [t \in Threads |-> FALSE]
  /\ timer_started = [t \in Threads |-> TRUE]

\* The controller, with the Result it copied from the manager: the rest of
\* the for(;;) body.
ReportAttempt ==
  /\ pc[0] = "collected"
  /\ Attempt(mresults)
  /\ Goto(0, "reported")
  /\ UNCHANGED <<attemptVars, ret, loop, stateVars, skip_msg, barrierVars,
                 benchmark_mutex_, mresults, endVars, broke>>

NextMerge ==
  \/ \E t \in Threads : RunInThreadLock(t) /\ UNCHANGED ctlVars
  \/ \E t \in Threads : RunInThreadMerge(t) /\ UNCHANGED ctlVars
  \/ \E t \in Threads : NotifyThreadCompleteRemove(t) /\ UNCHANGED ctlVars
  \/ \E t \in Threads : NotifyThreadCompleteDecrement(t) /\ UNCHANGED ctlVars
  \/ \E t \in Threads : NotifyThreadCompleteSignal(t) /\ UNCHANGED ctlVars
  \/ \E t \in Threads : WaitForAllThreadsLock(t) /\ UNCHANGED ctlVars
  \/ \E t \in Threads : WaitForAllThreadsTest(t) /\ UNCHANGED ctlVars
  \/ \E t \in Threads : WaitForAllThreadsBlock(t) /\ UNCHANGED ctlVars
  \/ \E t \in Threads : JoinPool(t) /\ UNCHANGED ctlVars
  \/ SpuriousWakeup /\ UNCHANGED ctlVars
  \/ ReportAttempt

SpecMerge == InitMerge /\ [][NextMerge]_vars

\* =========================================================================
\* Properties of one attempt (SpecThreads, FairSpecThreads)
\* =========================================================================

\* The thread has returned from its call of FinishKeepRunning.
ReturnedFromFinish(t) == finished_[t] /\ pc[t] /= "barrier"

\* The thread's timer is stopped and cannot be resumed any more.
TimerStopped(t) == ~running_[t] /\ (finished_[t] \/ error_occurred_[t])

\* The thread has called NotifyThreadComplete.
CalledNotify(t) ==
  pc[t] \in {"decrement", "signal", "exit", "wait_all", "wait_test",
             "wait_block", "asleep", "join", "collected"}

\* WaitForAllThreads has returned in the controller (thread 0).
WaitReturned == pc[0] \in {"join", "collected"}

\* C1: no thread starts its timer before all T threads have called
\* StartKeepRunning, and no thread returns from FinishKeepRunning before all
\* T threads have stopped their timers.
C1_BarrierAlignsTiming ==
  \A t \in Threads :
    /\ timer_started[t] => \A u \in Threads : started_[u]
    /\ ReturnedFromFinish(t) => \A u \in Threads : TimerStopped(u)

\* A thread has returned from FinishKeepRunning in an attempt in which every
\* thread ran its timer and no thread reported an error.
C1_Witness ==
  /\ \E t \in Threads : ReturnedFromFinish(t)
  /\ \A u \in Threads : timer_started[u] /\ ~error_occurred_[u]

C3_WaitForAllThreads ==
  /\ [](WaitReturned => alive_threads_ = 0)
  /\ (alive_threads_ = 0) ~> WaitReturned

\* The controller blocked in WaitForAllThreads and has been woken with the
\* counter at zero.
C3_Witness ==
  /\ pc[0] = "asleep"
  /\ 0 \notin sleeping
  /\ alive_threads_ = 0

\* C10: once the Result holds an error no step changes it, and the write
\* that sets it stores the message of the call holding the Result mutex.
C10_FirstErrorWins ==
  [][/\ mresults.has_error_ => mresults' = mresults
     /\ ~mresults.has_error_ /\ mresults'.has_error_ =>
          \E t \in benchmark_mutex_ :
            mresults'.error_message_ = skip_msg[t]]_vars

\* A thread has completed a SkipWithError call whose message differs from
\* the stored one.
C10_Witness ==
  /\ mresults.has_error_
  /\ \E t \in Threads :
       /\ error_occurred_[t]
       /\ pc[t] \notin {"skip", "skip_locked"}
       /\ skip_msg[t] /= mresults.error_message_

\* =========================================================================
\* Properties of the iteration-count controller (Spec, FairSpec)
\* =========================================================================

\* The controller has run at least one attempt; results, attempt_iters,
\* attempt_rep and should_report describe the last one.
Attempted == attempt_iters > 0

\* The last attempt was rejected: `iters` is the count of the retry.
Retried == Attempted /\ ~should_report

\* C4: across the retries of repetition 0 the candidate iteration count is
\* strictly increasing, at least 1 and at most kMaxIterations, whatever the
\* attempts measured.
C4_ItersStrictlyIncrease ==
  /\ 1 <= iters
  /\ has_explicit_iteration_count \/ iters <= kMaxIterations
  /\ Retried => attempt_rep = 0 /\ attempt_iters < iters

\* The count reached the ceiling by a retry after a negative measured time.
C4_Witness ==
  /\ Retried
  /\ results.manual_time_used < 0
  /\ b.use_manual_time
  /\ iters = kMaxIterations

\* C5: repetition 0 is accepted after at most 61 retries (the number of
\* steps of n -> max(1.4 n, n + 1) from 1 to kMaxIterations), an attempt at
\* the ceiling is accepted whatever it measured, and, attempts terminating,
\* the loop reaches the acceptance.
C5_BoundedRetries ==
  /\ [](retries <= 61)
  /\ [](Attempted /\ attempt_iters >= kMaxIterations => should_report)
  /\ <>(repetition_num >= 1)

\* An attempt at the ceiling that measured less than the minimum time, with
\* neither a pinned count nor an error, was accepted.
C5_Witness ==
  /\ Attempted
  /\ attempt_rep = 0
  /\ attempt_iters = kMaxIterations
  /\ should_report
  /\ ~results.has_error_
  /\ Seconds(results) < min_time
  /\ results.real_time_used < 5 * min_time

\* C6: on repetition 0, with no pinned count, no error and a count below the
\* ceiling, the attempt is accepted iff the time on the instance's basis is
\* at least min_time, or the real time is at least 5 x min_time and the
\* basis is not manual time.
C6_AcceptIffLongEnough ==
  (/\ Attempted
   /\ attempt_rep = 0
   /\ ~has_explicit_iteration_count
   /\ ~results.has_error_
   /\ attempt_iters < kMaxIterations)
  => (should_report <=>
        \/ (b.use_manual_time /\ results.manual_time_used >= min_time)
        \/ (~b.use_manual_time /\ b.use_real_time
               /\ results.real_time_used >= min_time)
        \/ (~b.use_manual_time /\ ~b.use_real_time
               /\ results.cpu_time_used >= min_time)
        \/ (~b.use_manual_time /\ results.real_time_used >= 5 * min_time))

\* An attempt on the manual-time basis whose real time was at least
\* 5 x min_time and whose manual time was short was rejected.
C6_Witness ==
  /\ Retried
  /\ b.use_manual_time
  /\ ~results.has_error_
  /\ results.real_time_used >= 5 * min_time
  /\ results.manual_time_used < min_time

\* C7: a repetition with index >= 1 is never retried and runs with the count
\* repetition 0 was accepted with, so that all run records carry the same
\* iteration count and there is one record per repetition.
C7_OnlyRepetitionZeroCalibrates ==
  /\ repetition_num >= 1 => attempts = 0
  /\ Attempted /\ attempt_rep >= 1 =>
       /\ should_report
       /\ attempt_iters = iters
       /\ run_reports[1].iterations = attempt_iters * b.threads
  /\ Len(run_reports) = repetition_num
  /\ \A i \in 1..Len(run_reports) :
       run_reports[i].iterations = run_reports[1].iterations

\* After a calibration with retries, a later repetition measured less than
\* the minimum time and was accepted.
C7_Witness ==
  /\ Attempted
  /\ attempt_rep >= 1
  /\ retries > 0
  /\ ~results.has_error_
  /\ Seconds(results) < min_time
  /\ results.real_time_used < 5 * min_time
  /\ Len(run_reports) >= 2

\* C8: with a pinned iteration count n every repetition is one attempt of n
\* iterations per thread, whatever it measured; without one the first
\* attempt of repetition 0 runs 1 iteration.
C8_PinnedCount ==
  /\ has_explicit_iteration_count =>
       /\ retries = 0
       /\ iters = b.iterations
       /\ Attempted => attempt_iters = b.iterations /\ should_report
       /\ Len(run_reports) = repetition_num
       /\ \A i \in 1..Len(run_reports) :
            run_reports[i].iterations = b.iterations * b.threads
  /\ ~has_explicit_iteration_count =>
       /\ ~Attempted => iters = 1
       /\ Attempted /\ retries + Len(run_reports) = 1 => attempt_iters = 1

\* A pinned instance has completed two repetitions, the last of which
\* measured less than the minimum time.
C8_Witness ==
  /\ has_explicit_iteration_count
  /\ Len(run_reports) = 2
  /\ ~results.has_error_
  /\ Seconds(results) < min_time
  /\ results.real_time_used < 5 * min_time

\* The records a single errored repetition leaves in the instance's stats.
ErroredInstanceDone ==
  /\ cpc = "done"
  /\ repeats = 1
  /\ Len(run_reports) = 1
  /\ run_reports[1].kind = "error"

\* C9 as stated: an instance whose single repetition errored has no
\* statistic or complexity record.
C9_NoRecordsAfterError == ErroredInstanceDone => stat_reports = <<>>

\* C9, amended: an attempt with an error is accepted at once, with a run
\* record of kind "error" carrying the message, and leaves the candidate count
\* and the complexity inputs as they were; an instance whose single
\* repetition errored ends with one run record and no statistic record, and
\* with no complexity record either unless it is the last instance of a
\* complexity-tracked family that holds at least 2 inputs of earlier
\* instances, in which case it ends with that family's complexity record.
C9_ErrorAttempt ==
  [][/\ (attempt_iters' > 0 /\ results'.has_error_
          /\ <<retries, run_reports>>' /= <<retries, run_reports>>) =>
          /\ should_report'
          /\ retries' = retries /\ iters' = iters
          /\ run_reports' =
               Append(run_reports,
                      [name |-> b.name, kind |-> "error",
                       iterations |-> iters * b.threads,
                       error_message |-> results'.error_message_,
                       real_accumulated_time |-> <<>>,
                       cpu_accumulated_time |-> <<>>, counters |-> <<>>])
          /\ complexity_reports' = complexity_reports
     /\ (cpc = "attempt" /\ cpc' /= "attempt" /\ repeats = 1
          /\ run_reports[1].kind = "error") =>
          /\ cpc' = "done"
          /\ Len(run_reports) = 1
          /\ \A i \in 1..Len(stat_reports') :
               stat_reports'[i].kind /= "statistic"
          /\ Len(stat_reports') =
               (IF /\ b.complexity /= oNone
                   /\ b.last_benchmark_instance
                   /\ Len(complexity_reports) >= 2
                THEN 1 ELSE 0)]_vars

\* The errored single repetition of the last instance of a complexity-tracked
\* family has ended with the family's complexity record.
C9_Witness ==
  /\ ErroredInstanceDone
  /\ Len(stat_reports) = 1
  /\ stat_reports[1].kind = "complexity"

\* =========================================================================
\* Properties of the end of an attempt (SpecMerge) and of the run record
\* =========================================================================

\* Every thread has merged its numbers into the manager's Result.
AllMerged == \A t \in Threads : pc[t] \notin {"check", "merge"}

\* The sum and the maximum over the threads 0..k of what each holds in field.
RECURSIVE SumContrib(_, _)
SumContrib(field, k) ==
  IF k < 0 THEN 0 ELSE contrib[k][field] + SumContrib(field, k - 1)

RECURSIVE MaxContrib(_, _)
MaxContrib(field, k) ==
  IF k < 0 THEN 0 ELSE Max(contrib[k][field], MaxContrib(field, k - 1))

TotalOf(field) == SumContrib(field, NumThreads - 1)

\* The attempt's elapsed time on the instance's basis, from the threads'
\* timers: the CPU total, or the real or manual total per thread.
BasisSeconds ==
  IF b.use_manual_time THEN TotalOf("manual_time_used") \div b.threads
  ELSE IF b.use_real_time THEN TotalOf("real_time_used") \div b.threads
  ELSE TotalOf("cpu_time_used")

\* The controller has decided on the attempt and reported it.
Reported == pc[0] = "reported" /\ should_report

\* C11: when all threads have merged, in any order, the Result's
\* bytes_processed, items_processed and complexity_n are the sums of the
\* threads' contributions, and the run record has bytes_per_second = that sum
\* of bytes / the elapsed seconds of the basis exactly when both are > 0.
C11_CountsAreSummed ==
  /\ AllMerged =>
       /\ mresults.bytes_processed = TotalOf("bytes_processed")
       /\ mresults.items_processed = TotalOf("items_processed")
       /\ mresults.complexity_n = TotalOf("complexity_length_n")
  /\ Reported =>
       json_report.bytes_per_second =
         (IF TotalOf("bytes_processed") > 0 /\ BasisSeconds > 0
          THEN <<TotalOf("bytes_processed"), BasisSeconds>> ELSE <<>>)

\* A record with a throughput figure to which every thread contributed bytes.
C11_Witness ==
  /\ Reported
  /\ json_report.bytes_per_second /= <<>>
  /\ \A t \in Threads : contrib[t].bytes_processed > 0

C14_ReportIdentities ==
  (Attempted /\ should_report /\ ~results.has_error_) =>
    /\ json_report.iterations = <<attempt_iters * b.threads>>
    /\ json_report.real_iteration_time =
         <<json_report.real_accumulated_time[1], json_report.iterations[1]>>
    /\ json_report.cpu_iteration_time =
         <<json_report.cpu_accumulated_time[1], json_report.iterations[1]>>

\* An accepted attempt of 2 threads with more than 1 iteration each and a
\* CPU time above zero.
C14_Witness ==
  /\ Attempted
  /\ should_report
  /\ ~results.has_error_
  /\ b.threads > 1
  /\ attempt_iters > 1
  /\ json_report.cpu_accumulated_time[1] > 0

\* ------------------------------------------------------------------------
\* Repetitions of one instance: run records, aggregates, console output
\* ------------------------------------------------------------------------
\* Instances with a pinned iteration count (every attempt is accepted), 1 to
\* MaxRepetitions repetitions, with and without a user-registered reducer,
\* in each report mode.
RepeatedInstances ==
  [threads : ThreadCounts,
   benchmark : {"steps"},
   iterations : PinnedIterations \ {0},
   min_time : {0},
   repetitions : 1..MaxRepetitions,
   use_real_time : BOOLEAN,
   use_manual_time : BOOLEAN,
   complexity : {oNone},
   last_benchmark_instance : {FALSE},
   statistics : {DefaultStatistics, WithUserStatistics},
   name : {"BM"},
   report_mode : {RM_Unspecified, RM_Default, RM_ReportAggregatesOnly}]

InitReps ==
  /\ b \in {i \in RepeatedInstances : ValidInstance(i)}
  /\ flags \in [benchmark_min_time : FlagMinTimes,
                benchmark_repetitions : {1},
                benchmark_report_aggregates_only : BOOLEAN]
  /\ CtlStart
  /\ NewAttempt(1)

ReportResultsAll(runs, stats, aggregates_only) == runs \o stats

\* ConsoleReporter::ReportResults: the records passed to ReportSingle, in
\* order.
ReportResults(runs, stats, aggregates_only) ==
  (IF Len(runs) = 1 \/ ~aggregates_only THEN runs ELSE <<>>) \o stats

\* The reporter receives reports_json of the finished instance.
ReportRuns ==
  /\ cpc = "done"
  /\ cpc' = "reported"
  /\ printed' = printed \o ReportResults(run_reports, stat_reports,
                                          report_aggregates_only)
  /\ UNCHANGED <<b, flags, iters, repetition_num, results, attempt_iters,
                 attempt_rep, should_report, attempts, retries, run_reports,
                 complexity_reports, stat_reports, json_report,
                 report_aggregates_only, call_args, call_value, objVars>>

NextReps ==
  \/ RunAttempt /\ UNCHANGED thrVars
  \/ Finish /\ UNCHANGED thrVars
  \/ ReportRuns /\ UNCHANGED thrVars

SpecReps == InitReps /\ [][NextReps]_vars

\* =========================================================================
\* Properties of the aggregates and of the console output (SpecReps)
\* =========================================================================

\* ComputeStats has returned (the instance's stats are in stat_reports).
StatsReturned == cpc \in {"done", "reported"}

NonErrorCount == Len(run_reports) - ErrorCount(run_reports)

C16_AggregatesDespiteErrors ==
  (cpc /= "attempt" /\ NonErrorCount >= 2 /\ ErrorCount(run_reports) > 0) =>
    /\ StatsReturned
    /\ stat_reports = ComputeStatsOfRuns(SelectSeq(run_reports, NotError),
                                         run_reports, b.statistics)

\* ComputeStats was given 2 non-error records and an error record, and the
\* program terminated in it.
C16_Witness ==
  /\ cpc = "terminated"
  /\ NonErrorCount = 2
  /\ ErrorCount(run_reports) = 1

Samples == {-1, 2, 5}

\* The vectors of samples of length 0..n.
RECURSIVE Vectors(_)
Vectors(n) ==
  IF n = 0 THEN {<<>>} ELSE Vectors(n - 1) \cup [1..n -> Samples]

runVars == <<b, flags, cpc, iters, repetition_num, results, attempt_iters,
             attempt_rep, should_report, attempts, retries, run_reports,
             complexity_reports, stat_reports, json_report,
             report_aggregates_only, printed>>

InitMedian ==
  /\ CtlIdle
  /\ NewAttempt(1)
  /\ call_args \in [v : Vectors(MaxLen)]
  /\ call_value = <<>>

CallStatisticsMedian ==
  /\ call_args /= <<>>
  /\ call_value = <<>>
  /\ call_value' = <<StatisticsMedian(call_args.v)>>
  /\ UNCHANGED <<call_args, runVars, objVars>>

NextMedian ==
  \/ CallStatisticsMedian /\ UNCHANGED thrVars

SpecMedian == InitMedian /\ [][NextMedian]_vars

\* Equality of two quotients <<dividend, divisor>>.
RatEq(p, q) == p[1] * q[2] = q[1] * p[2]

\* The k-th element of the ascending order of v: fewer than k elements are
\* below it and at least k are not above it.
Kth(v, k) ==
  CHOOSE x \in {v[i] : i \in 1..Len(v)} :
    /\ Cardinality({i \in 1..Len(v) : v[i] < x}) < k
    /\ Cardinality({i \in 1..Len(v) : v[i] <= x}) >= k

\* C18: StatisticsMedian returns 0 for the empty vector, the mean for 1 or 2
\* elements, the middle element of the ascending order for an odd count >= 3
\* and the average of its two central elements for an even count >= 4; the
\* value depends on the elements only, not on their order.
C18_Median ==
  call_value /= <<>> =>
    LET v == call_args.v
        n == Len(v)
        m == call_value[1]
    IN IF n = 0 THEN RatEq(m, <<0, 1>>)
       ELSE IF n < 3 THEN RatEq(m, <<StatisticsSum(v), n>>)
       ELSE IF n % 2 = 1 THEN RatEq(m, <<Kth(v, (n + 1) \div 2), 1>>)
       ELSE RatEq(m, <<Kth(v, n \div 2) + Kth(v, (n \div 2) + 1), 2>>)

\* The median of 4 elements given in descending order, the two central ones
\* different.
C18_Witness ==
  /\ call_value /= <<>>
  /\ Len(call_args.v) = 4
  /\ \A i \in 1..3 : call_args.v[i] >= call_args.v[i + 1]
  /\ call_args.v[2] > call_args.v[3]
  /\ RatEq(call_value[1], <<call_args.v[2] + call_args.v[3], 2>>)

\* ------------------------------------------------------------------------
\* Complexity: least-squares fit and curve selection (complexity.cc)
\* ------------------------------------------------------------------------
o1 == "o1"
oNSquared == "oNSquared"
oNCubed == "oNCubed"
oLogN == "oLogN"
oNLogN == "oNLogN"
oAuto == "oAuto"

\* log2 of a power of two.
RECURSIVE log2(_)
log2(n) == IF n <= 1 THEN 0 ELSE 1 + log2(n \div 2)

FittingCurve(complexity, n) ==
  CASE complexity = oN -> n
    [] complexity = oNSquared -> n * n
    [] complexity = oNCubed -> n * n * n
    [] complexity = oLogN -> log2(n)
    [] complexity = oNLogN -> n * log2(n)
    [] OTHER -> 1

RECURSIVE GCD(_, _)
GCD(x, y) == IF y = 0 THEN x ELSE GCD(y, x % y)

Abs(x) == IF x < 0 THEN -x ELSE x

\* A quotient <<dividend, divisor>> in lowest terms, the divisor above 0.
Reduce(q) ==
  LET g == GCD(Abs(q[1]), Abs(q[2]))
      sgn == IF q[2] < 0 THEN -1 ELSE 1
  IN <<sgn * (q[1] \div g), sgn * (q[2] \div g)>>

\* The doubles NaN and infinity as values of a normalised RMS, and the
\* coefficient 0 / 0.
NaN == [radicand |-> <<0, 0>>, mean |-> <<0, 0>>]
Inf == [radicand |-> <<1, 0>>, mean |-> <<0, 1>>]
NaNCoef == <<0, 0>>

\* x < y on doubles that hold normalised RMS values: a value is NaN, Inf or
\* sqrt(radicand) / mean with mean > 0.
RmsLessOrEqual(x, y) ==
  /\ x /= NaN /\ y /= NaN
  /\ \/ y = Inf
     \/ /\ x /= Inf
        /\ x.mean = y.mean
        /\ x.radicand[1] * y.radicand[2] <= y.radicand[1] * x.radicand[2]

RmsLess(x, y) ==
  /\ x /= NaN /\ y /= NaN /\ x /= Inf
  /\ \/ y = Inf
     \/ /\ x.mean = y.mean
        /\ x.radicand[1] * y.radicand[2] < y.radicand[1] * x.radicand[2]

\* MinimalLeastSq(n, time, fitting_curve): coef = sigma_time_gn /
\* sigma_gn_squared, rms = sqrt(sum of (time - coef * g(n))^2 / size) / mean.
\* 0 / 0 is NaN and so is everything computed from it.
MinimalLeastSqCurve(n, time, curve) ==
  LET size == Len(n)
      gn == [i \in 1..size |-> FittingCurve(curve, n[i])]
      sigma_gn_squared == StatisticsSum([i \in 1..size |-> gn[i] * gn[i]])
      sigma_time == StatisticsSum(time)
      sigma_time_gn == StatisticsSum([i \in 1..size |-> time[i] * gn[i]])
  IN IF sigma_gn_squared = 0
     THEN [complexity |-> "oLambda", coef |-> NaNCoef, rms |-> NaN]
     ELSE LET coef == Reduce(<<sigma_time_gn, sigma_gn_squared>>)
              rms == StatisticsSum([i \in 1..size |->
                       (time[i] * coef[2] - coef[1] * gn[i])
                       * (time[i] * coef[2] - coef[1] * gn[i])])
          IN [complexity |-> "oLambda",
              coef |-> coef,
              rms |-> IF sigma_time = 0
                      THEN (IF rms = 0 THEN NaN ELSE Inf)
                      ELSE [radicand |->
                              Reduce(<<rms, coef[2] * coef[2] * size>>),
                            mean |-> Reduce(<<sigma_time, size>>)]]

fit_curves == <<oLogN, oN, oNLogN, oNSquared, oNCubed>>

\* The loop over fit_curves, from the k-th on.
RECURSIVE BestFit(_, _, _, _)
BestFit(best_fit, k, n, time) ==
  IF k > Len(fit_curves) THEN best_fit
  ELSE LET current_fit == MinimalLeastSqCurve(n, time, fit_curves[k])
       IN BestFit(IF RmsLess(current_fit.rms, best_fit.rms)
                  THEN [current_fit EXCEPT !.complexity = fit_curves[k]]
                  ELSE best_fit,
                  k + 1, n, time)

\* MinimalLeastSq(n, time, complexity); its CHECKs hold for the inputs drawn.
MinimalLeastSq(n, time, complexity) ==
  IF complexity = oAuto
  THEN BestFit([MinimalLeastSqCurve(n, time, o1) EXCEPT !.complexity = o1],
               1, n, time)
  ELSE [MinimalLeastSqCurve(n, time, complexity)
          EXCEPT !.complexity = complexity]

kNanosecond == "kNanosecond"
kMicrosecond == "kMicrosecond"
kMillisecond == "kMillisecond"

GetTimeUnitMultiplier(unit) ==
  CASE unit = kMillisecond -> 1000
    [] unit = kMicrosecond -> 1000000
    [] OTHER -> 1000000000

\* The complexity record of ComputeBigO for 2 or more reports: the CPU fit,
\* then the real-time fit.  A quotient is <<dividend, divisor>>.
BigORecord(result_cpu, result_real, multiplier) ==
  [kind |-> "complexity",
   complexity |-> result_cpu.complexity,
   big_o |-> [real_time_coefficient |-> result_real.coef,
              cpu_time_coefficient |-> result_cpu.coef],
   rms |-> [real_time |-> <<result_real.rms, multiplier>>,
            cpu_time |-> <<result_cpu.rms, multiplier>>]]

\* The accumulators of ComputeBigO: the sizes and the times per iteration.
ComplexityN(reports) ==
  [i \in 1..Len(reports) |-> reports[i].complexity_n[1]]

IterationTimes(reports, field) ==
  [i \in 1..Len(reports) |-> reports[i][field][1] \div reports[i].iterations]

ComputeBigOFitEach(instance, reports) ==
  BigORecord(MinimalLeastSq(ComplexityN(reports),
                            IterationTimes(reports, "cpu_accumulated_time"),
                            instance.complexity),
             MinimalLeastSq(ComplexityN(reports),
                            IterationTimes(reports, "real_accumulated_time"),
                            instance.complexity),
             GetTimeUnitMultiplier(instance.time_unit))

ComputeBigOFit(instance, reports) ==
  LET n == ComplexityN(reports)
      result_cpu ==
        MinimalLeastSq(n, IterationTimes(reports, "cpu_accumulated_time"),
                       instance.complexity)
      result_real ==
        MinimalLeastSq(n, IterationTimes(reports, "real_accumulated_time"),
                       result_cpu.complexity)
  IN BigORecord(result_cpu, result_real,
                GetTimeUnitMultiplier(instance.time_unit))

\* Problem sizes and per-iteration times, in ticks, of the runs of a family.
Sizes == {1, 2}
Times == {0, 3, 6, 12}

\* The sequences over S of length 2..MaxPoints.
PointSeqs(S) == UNION {[1..k -> S] : k \in 2..MaxPoints}

\* Calls MinimalLeastSq(n, time, complexity) with vectors of one size.
LeastSqCalls ==
  {c \in [fn : {"MinimalLeastSq"}, n : PointSeqs(Sizes),
          time : PointSeqs(Times), complexity : {oAuto, oNSquared}] :
     Len(c.n) = Len(c.time)}

\* Run records of a family whose runs made iters_ iterations each: the
\* accumulated times are multiples of it, above 0.
FamilyReports(iters_) ==
  PointSeqs([complexity_n : {<<z>> : z \in Sizes},
             iterations : {iters_},
             real_accumulated_time : {<<t * iters_>> : t \in Times \ {0}},
             cpu_accumulated_time : {<<t * iters_>> : t \in Times \ {0}}])

\* Calls ComputeBigO(instance, reports).
BigOCalls ==
  [fn : {"ComputeBigO"},
   instance : [complexity : {oAuto, oN}, time_unit : {kNanosecond}],
   reports : FamilyReports(5)]

InitComplexity ==
  /\ CtlIdle
  /\ NewAttempt(1)
  /\ call_args \in LeastSqCalls \cup BigOCalls
  /\ call_value = <<>>

CallMinimalLeastSq ==
  /\ call_args /= <<>>
  /\ call_args.fn = "MinimalLeastSq"
  /\ call_value = <<>>
  /\ call_value' = <<MinimalLeastSq(call_args.n, call_args.time,
                                    call_args.complexity)>>
  /\ UNCHANGED <<call_args, runVars, objVars>>

CallComputeBigO ==
  /\ call_args /= <<>>
  /\ call_args.fn = "ComputeBigO"
  /\ call_value = <<>>
  /\ call_value' = <<ComputeBigOFit(call_args.instance, call_args.reports)>>
  /\ UNCHANGED <<call_args, runVars, objVars>>

NextComplexity ==
  \/ CallMinimalLeastSq /\ UNCHANGED thrVars
  \/ CallComputeBigO /\ UNCHANGED thrVars

SpecComplexity == InitComplexity /\ [][NextComplexity]_vars

\* =========================================================================
\* Properties of the complexity fit (SpecComplexity)
\* =========================================================================

\* The candidate curves in the order they are tried.
Candidates == <<o1, oLogN, oN, oNLogN, oNSquared, oNCubed>>

IsNumber(x) == x.radicand[2] /= 0

\* RMS x is lower than RMS y (of a fit of the same times): a number is lower
\* than a higher number, than infinity and than NaN.
Lower(x, y) ==
  /\ IsNumber(x)
  /\ IsNumber(y) =>
       x.radicand[1] * y.radicand[2] < y.radicand[1] * x.radicand[2]

\* Two RMS values tie: equal numbers, or both infinite.
Tie(x, y) ==
  IF IsNumber(x) /\ IsNumber(y)
  THEN x.radicand[1] * y.radicand[2] = y.radicand[1] * x.radicand[2]
  ELSE x = Inf /\ y = Inf

MinimalLeastSqReturned ==
  /\ call_value /= <<>>
  /\ call_args.fn = "MinimalLeastSq"

\* C19: with oAuto, MinimalLeastSq returns the fit of one of the 6 candidate
\* curves such that no candidate has a lower normalised RMS and no candidate
\* tried earlier has the same (so O(1) stays unless a later one is strictly
\* lower); for time = 3 * N over 2 or more different N it returns O(N) with
\* coefficient 3 and RMS 0.
C19_AutoSelection ==
  (MinimalLeastSqReturned /\ call_args.complexity = oAuto) =>
    LET r == call_value[1]
        n == call_args.n
        time == call_args.time
    IN /\ \E k \in 1..Len(Candidates) :
            /\ r.complexity = Candidates[k]
            /\ r.coef = MinimalLeastSqCurve(n, time, Candidates[k]).coef
            /\ r.rms = MinimalLeastSqCurve(n, time, Candidates[k]).rms
            /\ \A j \in 1..Len(Candidates) :
                 ~Lower(MinimalLeastSqCurve(n, time, Candidates[j]).rms, r.rms)
            /\ \A j \in 1..(k - 1) :
                 ~Tie(MinimalLeastSqCurve(n, time, Candidates[j]).rms, r.rms)
       /\ ((\A i \in 1..Len(n) : time[i] = 3 * n[i])
            /\ (\E i, j \in 1..Len(n) : n[i] /= n[j])) =>
            /\ r.complexity = oN
            /\ r.coef = <<3, 1>>
            /\ r.rms.radicand = <<0, 1>>
            /\ r.rms.mean[1] > 0

\* The fit of time = 3 * N over N = 1, 2 has been returned.
C19_Witness ==
  /\ MinimalLeastSqReturned
  /\ call_args.complexity = oAuto
  /\ call_args.n = <<1, 2>>
  /\ call_args.time = <<3, 6>>
  /\ call_value[1].complexity = oN

ComputeBigOReturned ==
  /\ call_value /= <<>>
  /\ call_args.fn = "ComputeBigO"

\* C20: the complexity record names the curve selected for the CPU times, and
\* its real-time coefficient and RMS are those of the fit of the real times
\* with that same curve, whatever curve the real times alone would select.
C20_OneCurveForBothSeries ==
  ComputeBigOReturned =>
    LET record == call_value[1]
        n == ComplexityN(call_args.reports)
        real_time == IterationTimes(call_args.reports, "real_accumulated_time")
        cpu_time == IterationTimes(call_args.reports, "cpu_accumulated_time")
        real_fit == MinimalLeastSqCurve(n, real_time, record.complexity)
        cpu_fit == MinimalLeastSqCurve(n, cpu_time, record.complexity)
    IN /\ record.complexity =
            MinimalLeastSq(n, cpu_time, call_args.instance.complexity).complexity
       /\ record.big_o.real_time_coefficient = real_fit.coef
       /\ record.rms.real_time[1] = real_fit.rms
       /\ record.big_o.cpu_time_coefficient = cpu_fit.coef
       /\ record.rms.cpu_time[1] = cpu_fit.rms

\* A record with the curve O(N) selected for the CPU times, for real times
\* that alone would select O(N^2).
C20_Witness ==
  /\ ComputeBigOReturned
  /\ call_args.instance.complexity = oAuto
  /\ call_value[1].complexity = oN
  /\ MinimalLeastSq(ComplexityN(call_args.reports),
                    IterationTimes(call_args.reports, "real_accumulated_time"),
                    oAuto).complexity = oNSquared

\* ------------------------------------------------------------------------
\* Comparison of two results (CalculateChange, CompareResults)
\* ------------------------------------------------------------------------
\* Old and new times, in ticks.
Changes == {-15, -10, -3, -1, 0, 1, 3, 10, 15}

\* A double quotient x / y as <<x, y>>; a divisor 0 is a division by zero.
CalculateChange(Old, New) ==
  IF IsZero(Old) /\ IsZero(New) THEN <<0, 1>>
  ELSE IF IsZero(Old) THEN <<(New - Old) * 2, Old + New>>
  ELSE <<New - Old, Abs(Old)>>

ChangeCalls == [fn : {"CalculateChange"}, Old : Changes, New : Changes]

CallCalculateChange ==
  /\ call_args /= <<>>
  /\ call_args.fn = "CalculateChange"
  /\ call_value = <<>>
  /\ call_value' = <<CalculateChange(call_args.Old, call_args.New)>>
  /\ UNCHANGED <<call_args, runVars, objVars>>

\* Leaf runs of a report: a normal run with its times per iteration, an error
\* run (CreateRunReport leaves the times out), and the mean of repetitions.
RunOf(t) ==
  [name |-> "", kind |-> "normal",
   cpu_iteration_time |-> <<t>>, real_iteration_time |-> <<t + 5>>]

ErrorRun ==
  [name |-> "", kind |-> "error",
   cpu_iteration_time |-> <<>>, real_iteration_time |-> <<>>]

MeanOf(name, t) ==
  [name |-> name \o "_mean", kind |-> "statistic",
   cpu_iteration_time |-> <<t>>, real_iteration_time |-> <<t + 5>>]

\* The "instance" keys {"args", b.arg}, {"threads", b.threads}.
InstanceKeys == {[args |-> <<8>>, threads |-> 1], [args |-> <<8>>, threads |-> 2]}

\* What RunSingleBenchmarkImp returns for one instance: one run, one errored
\* run, or 2 repetitions with their statistics.
ReportsJson ==
  UNION {{[name |-> nm, family |-> nm, instance |-> k,
           runs |-> <<RunOf(10)>>, stats |-> <<>>],
          [name |-> nm, family |-> nm, instance |-> k,
           runs |-> <<ErrorRun>>, stats |-> <<>>],
          [name |-> nm, family |-> nm, instance |-> k,
           runs |-> <<RunOf(10), RunOf(20)>>, stats |-> <<MeanOf(nm, 15)>>]} :
         nm \in {"bench1", "bench2"}, k \in InstanceKeys}

\* The report lists of 0..MaxList reports.
ReportLists == UNION {[1..k -> ReportsJson] : k \in 0..MaxList}

\* GetRunOrMeanStat: the only run, else the statistic named <name>_mean; <<>>
\* where its CHECK or BENCHMARK_UNREACHABLE is hit.
GetRunOrMeanStat(R) ==
  IF Len(R.runs) = 1 THEN <<R.runs[1]>>
  ELSE LET hits == {i \in 1..Len(R.stats) :
                      R.stats[i].name = R.name \o "_mean"}
       IN IF hits = {} THEN <<>>
          ELSE <<R.stats[CHOOSE i \in hits : \A j \in hits : i <= j]>>

ToCompare == <<"cpu_iteration_time", "real_iteration_time">>

\* CompareReport does not return: a statistic is missing or S.at(Key) throws.
CompareReportFails(R1, R2) ==
  \/ GetRunOrMeanStat(R1) = <<>>
  \/ GetRunOrMeanStat(R2) = <<>>
  \/ \E k \in 1..Len(ToCompare) :
       \/ GetRunOrMeanStat(R1)[1][ToCompare[k]] = <<>>
       \/ GetRunOrMeanStat(R2)[1][ToCompare[k]] = <<>>

CompareReport(R1, R2) ==
  LET S1 == GetRunOrMeanStat(R1)[1]
      S2 == GetRunOrMeanStat(R2)[1]
  IN [name |-> R1.name \o "/compare_to/" \o R2.name,
      kind |-> "comparison",
      old_result |-> R1,
      new_result |-> R2,
      comparison |->
        [cpu_iteration_time |->
           CalculateChange(S1.cpu_iteration_time[1], S2.cpu_iteration_time[1]),
         real_iteration_time |->
           CalculateChange(S1.real_iteration_time[1],
                           S2.real_iteration_time[1])]]

\* The item at the same place of the list, whatever its key.
FindFirstItem(Instance, Root) ==
  IF Len(Root) = 0 THEN <<>> ELSE <<Root[1]>>

\* FindMatchingInstance: the first item with an equal key, or null (<<>>).
FindMatchingInstance(Instance, Root) ==
  LET hits == {i \in 1..Len(Root) : Root[i].instance = Instance}
  IN IF hits = {} THEN <<>>
     ELSE <<Root[CHOOSE i \in hits : \A j \in hits : i <= j]>>

\* A json array of items; the other json values of the model are objects.
JsonArray(items) == [array |-> items]

IsArray(R1) == "array" \in DOMAIN R1

JK_Report == "JK_Report"
JK_Run == "JK_Run"
JK_ReportList == "JK_ReportList"

\* ClassifyNode of an object that has "runs" and "family", or a "kind" of a
\* run record.
ClassifyObject(R1) ==
  CASE "runs" \in DOMAIN R1 /\ "family" \in DOMAIN R1 -> JK_Report
    [] "kind" \in DOMAIN R1 /\ R1.kind \in {"normal", "error", "statistic"} ->
         JK_Run

\* JSONNodeKind ClassifyNode(R1): "CHECK" where the CHECK_EQ on the first
\* element of an array fails.
ClassifyNode(R1) ==
  IF IsArray(R1)
    THEN IF Len(R1.array) = 0 THEN JK_ReportList
         ELSE IF ClassifyObject(R1.array[1]) = JK_Report THEN JK_ReportList
         ELSE "CHECK"
    ELSE ClassifyObject(R1)

\* The loop of CompareResults over two report lists: it stops at the first
\* element whose CHECK(!Match.is_null()) or CompareReport fails, and
\* nothing is returned.
CompareReportList(R1, R2) ==
  IF \E i \in 1..Len(R1) :
       \/ FindMatchingInstance(R1[i].instance, R2) = <<>>
       \/ CompareReportFails(R1[i], FindMatchingInstance(R1[i].instance, R2)[1])
  THEN [failed |-> TRUE, type |-> "none", Res |-> <<>>]
  ELSE [failed |-> FALSE, type |-> "array",
        Res |-> [i \in 1..Len(R1) |->
                   CompareReport(R1[i],
                     FindMatchingInstance(R1[i].instance, R2)[1])]]

\* json CompareResults(R1, R2): whether a CHECK failed or a json call
\* threw, the type of the json value returned, and the value (the items of
\* an array, the object, <<>> for null).
CompareResults(R1, R2) ==
  LET Kind == ClassifyNode(R1)
  IN  IF Kind = "CHECK" \/ ClassifyNode(R2) /= Kind
        THEN [failed |-> TRUE, type |-> "none", Res |-> <<>>]
      ELSE IF Kind = JK_Report
        THEN IF CompareReportFails(R1, R2)
               THEN [failed |-> TRUE, type |-> "none", Res |-> <<>>]
               ELSE [failed |-> FALSE, type |-> "object",
                     Res |-> CompareReport(R1, R2)]
      ELSE IF Kind = JK_ReportList
        THEN CompareReportList(R1.array, R2.array)
      ELSE [failed |-> FALSE, type |-> "null", Res |-> <<>>]

\* The values CompareResults is called with: report lists, a list of a run,
\* reports, and run records.
CompareNodes ==
  {JsonArray(list) : list \in ReportLists}
    \cup {JsonArray(<<RunOf(10)>>)}
    \cup ReportsJson
    \cup {RunOf(10), RunOf(20), ErrorRun, MeanOf("bench1", 15)}

CompareCalls == [fn : {"CompareResults"}, R1 : CompareNodes, R2 : CompareNodes]

InitCompare ==
  /\ CtlIdle
  /\ NewAttempt(1)
  /\ call_args \in ChangeCalls \cup CompareCalls
  /\ call_value = <<>>

CallCompareResults ==
  /\ call_args /= <<>>
  /\ call_args.fn = "CompareResults"
  /\ call_value = <<>>
  /\ call_value' = <<CompareResults(call_args.R1, call_args.R2)>>
  /\ UNCHANGED <<call_args, runVars, objVars>>

NextCompare ==
  \/ CallCalculateChange /\ UNCHANGED thrVars
  \/ CallCompareResults /\ UNCHANGED thrVars

SpecCompare == InitCompare /\ [][NextCompare]_vars

\* =========================================================================
\* Properties of the comparison (SpecCompare)
\* =========================================================================
CalculateChangeReturned ==
  /\ call_value /= <<>>
  /\ call_args.fn = "CalculateChange"

\* The sign of x: -1, 0 or 1.
Sign(x) == IF x < 0 THEN -1 ELSE IF x > 0 THEN 1 ELSE 0

\* C21: CalculateChange(Old, New) is (New - Old) / |Old| when Old is not zero,
\* 0 when both are zero and (New - Old) / ((Old + New) / 2) when only Old is
\* zero; its divisor is never 0 and it has the sign of New - Old.
C21_SignedChange ==
  CalculateChangeReturned =>
    LET Old == call_args.Old
        New == call_args.New
        change == call_value[1]
    IN /\ change[2] /= 0
       /\ ~IsZero(Old) => RatEq(change, <<New - Old, Abs(Old)>>)
       /\ (IsZero(Old) /\ IsZero(New)) => RatEq(change, <<0, 1>>)
       /\ (IsZero(Old) /\ ~IsZero(New)) =>
            RatEq(change, <<(New - Old) * 2, Old + New>>)
       /\ Sign(change[1]) * Sign(change[2]) = Sign(New - Old)

\* CalculateChange(0, -10) has returned 2.
C21_Witness ==
  /\ CalculateChangeReturned
  /\ call_args.Old = 0
  /\ call_args.New = -10
  /\ RatEq(call_value[1], <<2, 1>>)

CompareResultsReturned ==
  /\ call_value /= <<>>
  /\ call_args.fn = "CompareResults"

\* CompareResults has been called with two report lists.
ReportListsCompared ==
  /\ CompareResultsReturned
  /\ ClassifyNode(call_args.R1) = JK_ReportList
  /\ ClassifyNode(call_args.R2) = JK_ReportList

\* C22: what CompareResults returns for two report lists has one comparison
\* record per element of R1, in R1's order, whose old result is that element
\* and whose new result is an element of R2 with an equal "instance" key;
\* when an element of R1 has no such element in R2 the call fails and
\* returns nothing, not even the records of the elements before it.
C22_PairedByInstance ==
  ReportListsCompared =>
    LET R1 == call_args.R1.array
        R2 == call_args.R2.array
        out == call_value[1]
    IN /\ (\E i \in 1..Len(R1) : \A j \in 1..Len(R2) :
             R2[j].instance /= R1[i].instance) => out.failed
       /\ out.failed => out.Res = <<>>
       /\ ~out.failed =>
            /\ Len(out.Res) = Len(R1)
            /\ \A i \in 1..Len(R1) :
                 /\ out.Res[i].kind = "comparison"
                 /\ out.Res[i].old_result = R1[i]
                 /\ out.Res[i].new_result.instance = R1[i].instance
                 /\ \E j \in 1..Len(R2) : out.Res[i].new_result = R2[j]

\* Two records returned for lists that hold the same keys in opposite order.
C22_Witness ==
  /\ ReportListsCompared
  /\ ~call_value[1].failed
  /\ Len(call_args.R1.array) = 2
  /\ Len(call_args.R2.array) = 2
  /\ call_args.R1.array[1].instance /= call_args.R1.array[2].instance
  /\ call_args.R2.array[1].instance = call_args.R1.array[2].instance
  /\ call_args.R2.array[2].instance = call_args.R1.array[1].instance
  /\ call_value[1].Res[1].new_result = call_args.R2.array[2]

\* ------------------------------------------------------------------------
\* Direct calls of a ThreadTimer (State::ResumeTiming / State::PauseTiming)
\* ------------------------------------------------------------------------
InitTimer ==
  /\ CtlIdle
  /\ NoCall
  /\ NewAttempt(1)

NextTimer ==
  \/ (\E real_now, cpu_now \in Readings : StartTimer(real_now, cpu_now))
       /\ UNCHANGED <<call_args, call_value, runVars, thrVars, registry, runner,
                      moreVars>>
  \/ (\E real_now, cpu_now \in Readings : StopTimer(real_now, cpu_now))
       /\ UNCHANGED <<call_args, call_value, runVars, thrVars, registry, runner,
                      moreVars>>

SpecTimer == InitTimer /\ [][NextTimer]_vars

\* =========================================================================
\* Properties of the timer (SpecTimer)
\* =========================================================================
\* The step is a call of StartTimer.
StartTimerCalled == \E real_now, cpu_now \in Readings : StartTimer(real_now, cpu_now)

\* C23: a call of StartTimer on a running timer fails its assertion and
\* leaves start_real_time_ and start_cpu_time_ as they were.
C23_StartTimerAsserts ==
  [][(timer.running_ /\ StartTimerCalled) =>
       /\ timer'.failed
       /\ timer'.start_real_time_ = timer.start_real_time_
       /\ timer'.start_cpu_time_ = timer.start_cpu_time_]_vars

\* A timer started twice in a row, then stopped: no CHECK has failed and the
\* interval counted is the one from the second start.
C23_Witness ==
  /\ timer.calls = 3
  /\ ~timer.failed
  /\ ~timer.running_
  /\ timer.start_cpu_time_ = 1
  /\ timer.cpu_now = 2
  /\ timer.cpu_time_used_ = 1

StringPrintF_d(n) == <<"0", "1", "2", "3", "4", "5", "6", "7", "8", "9">>[n + 1]

RECURSIVE ConcatAll(_)
ConcatAll(ss) == IF ss = <<>> THEN <<>> ELSE Head(ss) \o ConcatAll(Tail(ss))

\* A value-initialised BenchmarkInstance: no name, no benchmark.
DefaultInstance ==
  [name |-> <<>>, benchmark |-> 0, arg |-> <<>>, threads |-> 0,
   input_data |-> <<>>, last_benchmark_instance |-> FALSE]

\* make_instance of GenerateInstances; the name is kept as the sequence of
\* the pieces appended to it.  The families drawn keep the defaults of
\* min_time, iterations, repetitions, arg_names and the time basis.
make_instance(family, instance_args, num_threads, data) ==
  [name |-> <<family.family_name>>
            \o ConcatAll([i \in 1..Len(instance_args) |->
                            <<"/", StringPrintF_d(instance_args[i])>>])
            \o (IF data /= <<>> THEN <<"/input:", data[1]>> ELSE <<>>)
            \o (IF family.thread_counts /= <<>>
                THEN <<"/threads:", StringPrintF_d(num_threads)>> ELSE <<>>),
   benchmark |-> family.id,
   arg |-> instance_args,
   threads |-> num_threads,
   input_data |-> data,
   last_benchmark_instance |-> FALSE]

\* The three nested loops of GenerateInstances.
InstancesOfLoops(family) ==
  LET one_thread == <<1>>
      instance_thread_counts ==
        IF family.thread_counts = <<>> THEN one_thread ELSE family.thread_counts
      default_args == << <<>> >>
      default_inputs == << <<>> >>
      As == IF family.args = <<>> THEN default_args ELSE family.args
      Js == IF family.user_data = <<>> THEN default_inputs
            ELSE [j \in 1..Len(family.user_data) |-> <<family.user_data[j]>>]
  IN ConcatAll([a \in 1..Len(As) |->
       ConcatAll([j \in 1..Len(Js) |->
         [t \in 1..Len(instance_thread_counts) |->
            make_instance(family, As[a], instance_thread_counts[t], Js[j])]])])

\* GenerateInstances: instance_list(family_size) holds family_size
\* value-initialised instances before the loops push theirs.
GenerateInstances(family) ==
  LET thread_count == IF family.thread_counts = <<>> THEN 1
                      ELSE Len(family.thread_counts)
      family_size == Max(Len(family.args), 0) * thread_count
  IN [i \in 1..family_size |-> DefaultInstance] \o InstancesOfLoops(family)

\* Families a program registers: name, Args(...) calls, user data (by name)
\* and Threads(...) calls.
FamilyShapes ==
  [family_name : {"BM_a", "BM_b"},
   args : {<<>>, << <<1>> >>, << <<1>>, <<2>> >>},
   user_data : {<<>>, <<"x">>, <<"x", "y">>},
   thread_counts : {<<>>, <<2>>, <<1, 2>>}]

Family(shape, serial, index) ==
  [family_name |-> shape.family_name, args |-> shape.args,
   user_data |-> shape.user_data, thread_counts |-> shape.thread_counts,
   id |-> serial, index |-> index]

GenerateCalls ==
  [fn : {"GenerateInstances"},
   family : {Family(shape, 1, 0) : shape \in FamilyShapes}]

CallGenerateInstances ==
  /\ call_args /= <<>>
  /\ call_args.fn = "GenerateInstances"
  /\ call_value = <<>>
  /\ call_value' = <<GenerateInstances(call_args.family)>>
  /\ UNCHANGED <<call_args, runVars, objVars>>

\* The families the registry is exercised with.
RegisteredShapes ==
  {shape \in FamilyShapes :
     /\ shape.user_data = <<>>
     /\ shape.args \in {<<>>, << <<1>>, <<2>> >>}
     /\ shape.thread_counts = <<>>}

\* RegisterBenchmarkInternal of a new Benchmark object: AddBenchmark.
AddBenchmark(shape) ==
  /\ registry.made < MaxRegistered
  /\ registry' =
       [registry EXCEPT
          !.families_ = Append(@, Family(shape, registry.made + 1, Len(@))),
          !.made = @ + 1,
          !.ret = <<>>]

\* ClearBenchmarks that leaves families_ as it is.
ClearBenchmarksNot ==
  registry' = [registry EXCEPT !.cleared = registry.made, !.ret = <<>>]

\* ClearRegisteredBenchmarks: ClearBenchmarks.
ClearBenchmarks ==
  registry' = [registry EXCEPT !.families_ = <<>>,
                               !.cleared = registry.made,
                               !.ret = <<>>]

\* The filters given to FindBenchmarks.
Filters == {"", "all", ".", ".*", "BM_a", "monkey", "("}

\* Regex::Init fails on the filter.
RegexInitFails(spec) == spec = "("

\* Regex::Match of a valid filter on a name: "." needs one character, ".*"
\* none, and a word matches the names that have it as one of their pieces.
Match(spec, name) ==
  CASE spec = "." -> name /= <<>>
    [] spec = ".*" -> TRUE
    [] OTHER -> \E i \in 1..Len(name) : name[i] = spec

\* The matches of one family, the last of them marked.
MatchesOfFamily(spec, family) ==
  LET hits == SelectSeq(GenerateInstances(family),
                        LAMBDA Instance : Match(spec, Instance.name))
  IN IF hits = <<>> THEN <<>>
     ELSE [hits EXCEPT ![Len(hits)].last_benchmark_instance = TRUE]

\* BenchmarkFamilies::FindBenchmarks on an empty result list.
FindBenchmarksOfFamilies(spec, families) ==
  IF RegexInitFails(spec) THEN [EC |-> TRUE, benchmarks |-> <<>>]
  ELSE [EC |-> FALSE,
        benchmarks |-> ConcatAll([f \in 1..Len(families) |->
                                    MatchesOfFamily(spec, families[f])])]

\* benchmark::FindBenchmarks(Regex, EC).
FindBenchmarks(Regex) ==
  LET AdjRegex == IF Regex = "" \/ Regex = "all" THEN "." ELSE Regex
  IN registry' =
       [registry EXCEPT
          !.ret = <<[Regex |-> Regex] @@
                    FindBenchmarksOfFamilies(AdjRegex, registry.families_)>>]

InitRegister ==
  /\ CtlIdle
  /\ NewAttempt(1)
  /\ call_args \in GenerateCalls \cup {<<>>}
  /\ call_value = <<>>

NextRegister ==
  \/ CallGenerateInstances /\ UNCHANGED thrVars
  \/ (\E shape \in RegisteredShapes : call_args = <<>> /\ AddBenchmark(shape))
       /\ UNCHANGED <<call_args, call_value, runVars, thrVars, timer, runner,
                      moreVars>>
  \/ (call_args = <<>> /\ ClearBenchmarks)
       /\ UNCHANGED <<call_args, call_value, runVars, thrVars, timer, runner,
                      moreVars>>
  \/ (\E Regex \in Filters : call_args = <<>> /\ FindBenchmarks(Regex))
       /\ UNCHANGED <<call_args, call_value, runVars, thrVars, timer, runner,
                      moreVars>>

SpecRegister == InitRegister /\ [][NextRegister]_vars

\* =========================================================================
\* Properties of the registration (SpecRegister)
\* =========================================================================
FindBenchmarksReturned == registry.ret /= <<>>

\* The serial numbers of the objects registered since the last clear.
RegisteredSinceClear == (registry.cleared + 1)..registry.made

\* C25: once ClearRegisteredBenchmarks has been called, FindBenchmarks
\* returns no instance of a benchmark registered before the clear, whatever
\* the filter (none at all when nothing was registered since); the
\* benchmarks registered since are found in the order of their registration,
\* every one of them with the filters that match every name.
C25_ClearInvalidates ==
  (FindBenchmarksReturned /\ registry.cleared > 0) =>
    LET found == registry.ret[1].benchmarks
    IN /\ \A i \in 1..Len(found) : found[i].benchmark \notin 1..registry.cleared
       /\ RegisteredSinceClear = {} => found = <<>>
       /\ \A i, j \in 1..Len(found) :
            (i < j /\ found[i].benchmark /= 0 /\ found[j].benchmark /= 0) =>
              found[i].benchmark <= found[j].benchmark
       /\ registry.ret[1].Regex \in {"", "all", ".", ".*"} =>
            \A id \in RegisteredSinceClear :
              \E i \in 1..Len(found) : found[i].benchmark = id

\* After a clear, 2 benchmarks were registered and both are found, in order.
C25_Witness ==
  /\ FindBenchmarksReturned
  /\ registry.cleared = 1
  /\ registry.made = 3
  /\ Len(registry.ret[1].benchmarks) = 2
  /\ registry.ret[1].benchmarks[1].benchmark = 2
  /\ registry.ret[1].benchmarks[2].benchmark = 3

GenerateInstancesReturned ==
  /\ call_value /= <<>>
  /\ call_args.fn = "GenerateInstances"

\* The number of elements a configured list stands for: 1 when it is empty.
CountOf(list) == IF list = <<>> THEN 1 ELSE Len(list)

\* C27: GenerateInstances returns exactly A x D x C instances, one per
\* combination of argument set, user-data input and thread count in nested
\* order (args, data, threads), each with the family's name, its args and
\* its thread count, and nothing else.
C27_OneInstancePerCombination ==
  GenerateInstancesReturned =>
    LET family == call_args.family
        list == call_value[1]
        A == CountOf(family.args)
        D == CountOf(family.user_data)
        C == CountOf(family.thread_counts)
    IN /\ Len(list) = A * D * C
       /\ \A a \in 1..A, d \in 1..D, c \in 1..C :
            LET Instance == list[((a - 1) * D + (d - 1)) * C + c]
            IN /\ Instance.name[1] = family.family_name
               /\ Instance.benchmark = family.id
               /\ Instance.arg =
                    (IF family.args = <<>> THEN <<>> ELSE family.args[a])
               /\ Instance.input_data =
                    (IF family.user_data = <<>> THEN <<>>
                     ELSE <<family.user_data[d]>>)
               /\ Instance.threads =
                    (IF family.thread_counts = <<>> THEN 1
                     ELSE family.thread_counts[c])

\* A family with Args({1}) only has returned 2 elements, the first without a
\* name.
C27_Witness ==
  /\ GenerateInstancesReturned
  /\ call_args.family.args = << <<1>> >>
  /\ call_args.family.user_data = <<>>
  /\ call_args.family.thread_counts = <<>>
  /\ Len(call_value[1]) = 2
  /\ call_value[1][1].name = <<>>
  /\ call_value[1][2].name = <<"BM_a", "/", "1">>

\* =========================================================================
\* Properties of the growth of the iteration count (Spec)
\* =========================================================================
\* C28: on a retry the multiplier min_time * 1.4 / max(seconds, 1e-9) is
\* applied as it is when the rejected attempt took 10% of min_time or more,
\* exactly 10% included, and is capped at 10 only below 10%.
C28_UncappedFromTenPercent ==
  Retried =>
    LET seconds == Seconds(results)
        multiplier == <<14 * min_time, 10 * Max(seconds, 1)>>
        applied == IF seconds * 10 >= min_time
                      \/ multiplier[1] <= 10 * multiplier[2]
                   THEN multiplier ELSE <<10, 1>>
    IN iters = NextIters(attempt_iters, applied)

\* An attempt of 1 iteration that took exactly 10% of min_time was followed
\* by a retry with 10 iterations, not 14.
C28_Witness ==
  /\ Retried
  /\ Seconds(results) * 10 = min_time
  /\ attempt_iters = 1
  /\ iters = 10

\* C29, as claimed: the multiplier applied on a retry is 2 or more, and the
\* next iteration count is at least twice the previous one or the ceiling.
C29_MultiplierAtLeastTwo ==
  Retried =>
    /\ Multiplier(Seconds(results))[1] >= 2 * Multiplier(Seconds(results))[2]
    /\ iters >= 2 * attempt_iters \/ iters = kMaxIterations

\* C29: the multiplier applied on a retry is above 1, the next iteration
\* count is above the previous one, and after an attempt that took more than
\* 10% of min_time the count grows by min_time * 1.4 / seconds (or by 1 if
\* that is more) even when this ratio is below 2.
C29_MultiplierAboveOne ==
  Retried =>
    LET seconds == Seconds(results)
    IN /\ Multiplier(seconds)[1] > Multiplier(seconds)[2]
       /\ attempt_iters < iters
       /\ seconds * 10 > min_time =>
            iters = NextIters(attempt_iters, <<14 * min_time, 10 * seconds>>)

\* A retry after an attempt of 2 iterations that took 95% of min_time: the
\* multiplier is below 2 and the next count is 3.
C29_Witness ==
  /\ Retried
  /\ Seconds(results) * 20 = 19 * min_time
  /\ Multiplier(Seconds(results))[1] < 2 * Multiplier(Seconds(results))[2]
  /\ attempt_iters = 2
  /\ iters = 3
\* =========================================================================
\* RunBenchmarks over a list of instances
\* =========================================================================
\* The families whose instances FindBenchmarks puts in a list: the name, the
\* asymptotic complexity and the repetitions set on the family, and how many
\* of its instances match.
ListedFamilies(family_name) ==
  [name : {family_name}, complexity : {oNone, oN},
   repetitions : {0, MaxRepetitions}, count : 1..2]

\* instance.name: the family's name, "/", the argument.
InstanceName(family_name, arg) ==
  IF family_name = "BM_a"
  THEN (IF arg = 1 THEN "BM_a/1" ELSE "BM_a/2")
  ELSE (IF arg = 1 THEN "BM_b/1" ELSE "BM_b/2")

\* name.substr(0, name.find('/')), b.info->family_name.
FamilyOfName(name) == IF name \in {"BM_a/1", "BM_a/2"} THEN "BM_a" ELSE "BM_b"

\* The matched instances of one family: the body times itself by
\* SetIterationTime and runs a pinned number of iterations; FindBenchmarks
\* marks the last of them.
InstancesOfFamily(family) ==
  [i \in 1..family.count |->
     [threads |-> 1, benchmark |-> "doubling", iterations |-> 5,
      min_time |-> 0, repetitions |-> family.repetitions,
      use_real_time |-> FALSE, use_manual_time |-> TRUE,
      complexity |-> family.complexity,
      last_benchmark_instance |-> (i = family.count),
      statistics |-> DefaultStatistics,
      name |-> InstanceName(family.name, i),
      report_mode |-> RM_Unspecified]]

\* The runs a list asks for.
RECURSIVE RunsOfList(_)
RunsOfList(list) ==
  IF list = <<>> THEN 0
  ELSE (IF Head(list).repetitions /= 0 THEN Head(list).repetitions ELSE 1)
       + RunsOfList(Tail(list))

\* What FindBenchmarks returns: family by family, in registration order.
RunLists ==
  {list \in {<<>>}
      \cup {InstancesOfFamily(f) : f \in ListedFamilies("BM_a")}
      \cup {InstancesOfFamily(f) \o InstancesOfFamily(g) :
              f \in ListedFamilies("BM_a"), g \in ListedFamilies("BM_b")} :
     Len(list) <= MaxInstances /\ RunsOfList(list) <= MaxRuns}

\* RunBenchmarks(benchmarks, false) has been called and has not yet run a
\* statement.
InitRunAll ==
  /\ \E list \in RunLists :
       runner = [NewRunner EXCEPT !.benchmarks = list, !.pos = "called"]
  /\ timer = NewTimer
  /\ registry = NewRegistry
  /\ NoMore
  /\ b = InstancesOfFamily([name |-> "BM_a", complexity |-> oNone,
                            repetitions |-> 0, count |-> 1])[1]
  /\ flags = [benchmark_min_time |-> 10, benchmark_repetitions |-> 1,
              benchmark_report_aggregates_only |-> FALSE]
  /\ cpc = "idle"
  /\ iters = 1
  /\ repetition_num = 0
  /\ results = NoResult
  /\ attempt_iters = 0
  /\ attempt_rep = 0
  /\ should_report = FALSE
  /\ attempts = 0
  /\ retries = 0
  /\ run_reports = <<>>
  /\ complexity_reports = <<>>
  /\ stat_reports = <<>>
  /\ json_report = NoFigures
  /\ report_aggregates_only = FALSE
  /\ printed = <<>>
  /\ NoCall
  /\ NewAttempt(1)

\* RunBenchmarks up to its loop, with ReportConsole false:
\* invokeAllCallbacks(K, J) calls every subscriber with (K, J).
RunBenchmarksInitial ==
  /\ runner.pos = "called"
  /\ runner' = [runner EXCEPT !.callbacks = Append(@, [K |-> CK_Initial,
                                                       J |-> <<>>]),
                              !.pos = "loop"]
  /\ UNCHANGED <<runVars, call_args, call_value, timer, registry, moreVars>>

\* The loop takes the next element of the list and enters
\* RunSingleBenchmarkImp(benchmark, &complexity_reports).
EnterInstance ==
  /\ runner.pos = "loop"
  /\ cpc = "idle"
  /\ runner.taken < Len(runner.benchmarks)
  /\ LET benchmark == runner.benchmarks[runner.taken + 1]
     IN /\ b' = benchmark
        /\ iters' = IF benchmark.iterations /= 0 THEN benchmark.iterations
                    ELSE 1
  /\ runner' = [runner EXCEPT !.taken = @ + 1]
  /\ cpc' = "attempt"
  /\ repetition_num' = 0
  /\ results' = NoResult
  /\ attempt_iters' = 0
  /\ attempt_rep' = 0
  /\ should_report' = FALSE
  /\ attempts' = 0
  /\ retries' = 0
  /\ run_reports' = <<>>
  /\ stat_reports' = <<>>
  /\ json_report' = NoFigures
  /\ report_aggregates_only' = FALSE
  /\ UNCHANGED <<flags, complexity_reports, printed, call_args, call_value,
                 timer, registry, moreVars>>

\* What RunSingleBenchmarkImp returns.
reports_json ==
  [name |-> b.name,
   family |-> FamilyOfName(b.name),
   instance |-> [threads |-> b.threads],
   runs |-> run_reports,
   stats |-> stat_reports,
   report_aggregates_only |-> report_aggregates_only]

\* RunSingleBenchmarkImp returns; the loop body passes the report to the
\* subscribers and appends it to benchmark_res.
ReturnInstance ==
  /\ runner.pos = "loop"
  /\ cpc = "done"
  /\ runner' = [runner EXCEPT
                  !.callbacks = Append(@, [K |-> CK_Report,
                                           J |-> reports_json]),
                  !.benchmark_res = Append(@, reports_json)]
  /\ cpc' = "idle"
  /\ UNCHANGED <<b, flags, iters, repetition_num, results, attempt_iters,
                 attempt_rep, should_report, attempts, retries, run_reports,
                 complexity_reports, stat_reports, json_report,
                 report_aggregates_only, printed, call_args, call_value,
                 timer, registry, moreVars>>

\* After the loop: CK_Final with benchmark_res, and the return.
RunBenchmarksFinal ==
  /\ runner.pos = "loop"
  /\ cpc = "idle"
  /\ runner.taken = Len(runner.benchmarks)
  /\ runner' = [runner EXCEPT
                  !.callbacks = Append(@, [K |-> CK_Final,
                                           J |-> runner.benchmark_res]),
                  !.pos = "returned"]
  /\ UNCHANGED <<runVars, call_args, call_value, timer, registry, moreVars>>

NextRunAll ==
  \/ RunBenchmarksInitial /\ UNCHANGED thrVars
  \/ EnterInstance /\ UNCHANGED thrVars
  \/ RunAttempt /\ UNCHANGED thrVars
  \/ Finish /\ UNCHANGED thrVars
  \/ ReturnInstance /\ UNCHANGED thrVars
  \/ RunBenchmarksFinal /\ UNCHANGED thrVars

SpecRunAll == InitRunAll /\ [][NextRunAll]_vars

\* =========================================================================
\* Properties of RunBenchmarks (SpecRunAll)
\* =========================================================================
\* The kinds of the calls the subscribers have seen, in order.
CallbackKinds == [i \in 1..Len(runner.callbacks) |-> runner.callbacks[i].K]

\* One CK_Initial, one CK_Report per element of the list, one CK_Final.
ExpectedKinds ==
  <<CK_Initial>> \o [i \in 1..Len(runner.benchmarks) |-> CK_Report]
                 \o <<CK_Final>>

\* C26: no instance ends the call of RunBenchmarks before its return, also
\* not one with runs that ended with a SkipWithError error; and the call
\* returns one report per instance of the list, in the list's order, after
\* its subscribers have seen one CK_Initial, then the report of each
\* instance in that order as a CK_Report, then one CK_Final.
C26_OneReportPerInstance ==
  /\ cpc /= "terminated"
  /\ runner.pos = "returned" =>
       /\ Len(runner.benchmark_res) = Len(runner.benchmarks)
       /\ \A i \in 1..Len(runner.benchmarks) :
            runner.benchmark_res[i].name = runner.benchmarks[i].name
       /\ CallbackKinds = ExpectedKinds
       /\ \A i \in 1..Len(runner.benchmarks) :
            runner.callbacks[i + 1].J = runner.benchmark_res[i]

\* An instance with an error run has ended the call: the list has an
\* instance that was never run, and no CK_Final was sent.
C26_Witness ==
  /\ cpc = "terminated"
  /\ ErrorCount(run_reports) > 0
  /\ runner.taken < Len(runner.benchmarks)
  /\ runner.pos = "loop"
  /\ \A i \in 1..Len(runner.callbacks) : runner.callbacks[i].K /= CK_Final

\* The non-error run records of the instances of a family that the call has
\* finished, in the order they were run.
RECURSIVE FamilyRunsOf(_, _)
FamilyRunsOf(family_name, res) ==
  IF res = <<>> THEN <<>>
  ELSE (IF Head(res).family = family_name
        THEN SelectSeq(Head(res).runs, NotError) ELSE <<>>)
       \o FamilyRunsOf(family_name, Tail(res))

\* The step ends the last matched instance of a complexity-tracked family.
LastOfTrackedFamily ==
  /\ cpc = "attempt"
  /\ cpc' = "done"
  /\ b.complexity /= oNone
  /\ b.last_benchmark_instance

C35_TimerStoppedAtMerge ==
  \A t \in Threads : pc[t] = "merge" => ~running_[t]

\* A thread is at the merge step after SkipWithError was called in its loop,
\* where its timer had been started, while another thread is at the merge
\* step or past it without an error.
C35_Witness ==
  \E t, u \in Threads :
    /\ pc[t] = "merge"
    /\ error_occurred_[t]
    /\ timer_started[t]
    /\ ~error_occurred_[u]
    /\ timer_started[u]
    /\ pc[u] \in {"check", "notify", "decrement", "signal", "wait_all", "exit"}
\* =========================================================================
\* State::SetLabel in an attempt
\* =========================================================================
\* Labels a body passes to SetLabel.
Labels == {"a", "b"}

\* The body calls SetLabel before its loop or after it.
CallSetLabel(t) ==
  /\ pc[t] \in {"body", "after_loop"}
  /\ ret' = [ret EXCEPT ![t] = IF pc[t] = "body" THEN "loop" ELSE "check"]
  /\ Goto(t, "label")
  /\ UNCHANGED <<attemptVars, loop, stateVars, skip_msg, barrierVars,
                 benchmark_mutex_, mresults, endVars, broke>>
  /\ UNCHANGED <<runVars, call_args, call_value, timer, registry, runner,
                 report_label_, restVars>>

SetLabelNoLock(t) ==
  /\ pc[t] = "label"
  /\ Goto(t, "label_locked")
  /\ UNCHANGED <<attemptVars, ret, loop, stateVars, skip_msg, barrierVars,
                 benchmark_mutex_, mresults, endVars, broke>>
  /\ UNCHANGED <<runVars, call_args, call_value, timer, registry, runner,
                 report_label_, restVars>>

\* SetLabel: MutexLock l(manager_->GetBenchmarkMutex()).
SetLabelLock(t) ==
  /\ pc[t] = "label"
  /\ benchmark_mutex_ = {}
  /\ benchmark_mutex_' = {t}
  /\ Goto(t, "label_locked")
  /\ UNCHANGED <<attemptVars, ret, loop, stateVars, skip_msg, barrierVars,
                 mresults, endVars, broke>>
  /\ UNCHANGED <<runVars, call_args, call_value, timer, registry, runner,
                 report_label_, restVars>>

\* SetLabel: manager_->results.report_label_ = label, and the release of the
\* mutex at the end of the scope.
SetLabelWrite(t, label) ==
  /\ pc[t] = "label_locked"
  /\ report_label_' = label
  /\ benchmark_mutex_' = benchmark_mutex_ \ {t}
  /\ Goto(t, ret[t])
  /\ UNCHANGED <<attemptVars, ret, loop, stateVars, skip_msg, barrierVars,
                 mresults, endVars, broke>>
  /\ UNCHANGED <<runVars, call_args, call_value, timer, registry, runner,
                 restVars>>

InitLabel == CtlIdle /\ NoCall /\ NewAttempt(1)

NextLabel ==
  \/ NextThreads
  \/ \E t \in Threads : CallSetLabel(t)
  \/ \E t \in Threads : SetLabelLock(t)
  \/ \E t \in Threads, label \in Labels : SetLabelWrite(t, label)

SpecLabel == InitLabel /\ [][NextLabel]_vars

\* =========================================================================
\* Properties of the two mutexes (SpecLabel)
\* =========================================================================
\* The thread whose step it is.
Stepping(t) == pc'[t] /= pc[t]

\* No holder of the Result mutex is blocked at the barrier or on the
\* completion condition variable, and no thread holds both mutexes.
MutexDiscipline ==
  /\ \A t \in benchmark_mutex_ : pc[t] /= "barrier" /\ t \notin sleeping
  /\ benchmark_mutex_ \cap end_cond_mutex_ = {}

\* The positions of the writes to the shared Result: the merge in
\* RunInThread, the error fields in SkipWithError, the label in SetLabel.
WritesResult(t) == pc[t] \in {"merge", "skip_locked", "label_locked"}

\* C31: a thread that takes a step writing to the shared Result (the merge
\* of its numbers, the error fields in SkipWithError, the label in SetLabel)
\* holds the Result mutex, and the Result changes in no other step; no
\* thread holds the Result mutex while it is blocked at the barrier or on
\* the completion condition variable; and no thread holds the Result mutex
\* and the completion mutex at the same time.
C31_ResultUnderMutex ==
  [][/\ \A t \in Threads :
          Stepping(t) /\ WritesResult(t) => benchmark_mutex_ = {t}
     /\ (mresults' /= mresults \/ report_label_' /= report_label_) =>
          \E t \in Threads : Stepping(t) /\ WritesResult(t)
     /\ MutexDiscipline']_vars

\* The shared Result holds an error written by SkipWithError and a label
\* written by SetLabel, one thread holds the Result mutex at its merge step
\* and the other is blocked on the completion condition variable.
C31_Witness ==
  /\ mresults.has_error_
  /\ report_label_ /= ""
  /\ \E t \in Threads : benchmark_mutex_ = {t} /\ pc[t] = "merge"
  /\ sleeping /= {}
\* =========================================================================
\* The life of an attempt's ThreadManager
\* =========================================================================
\* RunSingleBenchmarkImp: manager.reset(), after the join and the copy of
\* the results; the for(;;) body then goes on without the manager.
ResetManager ==
  /\ pc[0] = "collected"
  /\ manager_ = "live"
  /\ manager_' = "destroyed"
  /\ Goto(0, "reset")
  /\ UNCHANGED <<attemptVars, ret, loop, stateVars, skip_msg, barrierVars,
                 benchmark_mutex_, mresults, endVars, broke>>
  /\ UNCHANGED <<runVars, call_args, call_value, timer, registry, runner,
                 report_label_, builder, callback_list>>

NextJoin ==
  \/ NextThreads
  \/ ResetManager

SpecJoin == InitThreads /\ [][NextJoin]_vars

\* RunBenchmark of src/src/benchmark.cc after waitForAllThreads: the
\* measurements are read under the Result mutex, and the ThreadManager, a
\* local of the for(;;) body, goes out of scope at the end of the body; the
\* pool has not been joined.
LeaveScope ==
  /\ pc[0] = "join"
  /\ benchmark_mutex_ = {}
  /\ manager_ = "live"
  /\ manager_' = "destroyed"
  /\ Goto(0, "left")
  /\ UNCHANGED <<attemptVars, ret, loop, stateVars, skip_msg, barrierVars,
                 benchmark_mutex_, mresults, endVars, broke>>
  /\ UNCHANGED <<runVars, call_args, call_value, timer, registry, runner,
                 report_label_, builder, callback_list>>

\* RunBenchmark of src/src/benchmark.cc: thread.join() for the pool, at the
\* start of the next pass of the for(;;) body or after the last repetition.
JoinLater ==
  /\ pc[0] = "left"
  /\ \A u \in Threads \ {0} : pc[u] = "exit"
  /\ Goto(0, "joined")
  /\ UNCHANGED <<attemptVars, ret, loop, stateVars, skip_msg, barrierVars,
                 benchmark_mutex_, mresults, endVars, broke>>
  /\ UNCHANGED ctlVars

\* A thread locks end_cond_mutex_ of a ThreadManager that no longer exists:
\* the behaviour is undefined, and besides going on as if the manager
\* existed (NotifyThreadCompleteSignal) the thread may fault.
SignalDestroyed(t) ==
  /\ pc[t] = "signal"
  /\ manager_ = "destroyed"
  /\ Goto(t, "fault")
  /\ UNCHANGED <<attemptVars, ret, loop, stateVars, skip_msg, barrierVars,
                 benchmark_mutex_, mresults, endVars, broke>>
  /\ UNCHANGED ctlVars

\* The steps of the threads of the older RunBenchmark: those of the attempt,
\* without the join of RunSingleBenchmarkImp.
NextScoped ==
  \/ \E t \in Threads : pc[t] /= "join" /\ ThreadStep(t) /\ UNCHANGED ctlVars
  \/ SpuriousWakeup /\ UNCHANGED ctlVars
  \/ LeaveScope
  \/ JoinLater
  \/ \E t \in Threads : SignalDestroyed(t)

SpecScoped == InitThreads /\ [][NextScoped]_vars

\* =========================================================================
\* Properties of the manager's life (SpecJoin, SpecScoped)
\* =========================================================================
\* The thread is in NotifyThreadComplete, at a barrier wait or at its merge.
UsesManager(t) ==
  pc[t] \in {"notify", "decrement", "signal", "barrier", "check", "merge"}

\* C36: once the controller has joined the pool, and so when it destroys
\* the attempt's ThreadManager and goes on to the next attempt, every pool
\* thread has returned from RunInThread: none is in NotifyThreadComplete, in
\* a barrier wait or at its merge; and the manager is destroyed only after
\* the join.
C36_JoinedBeforeReset ==
  /\ pc[0] \in {"collected", "reset"} =>
       \A u \in Threads \ {0} : pc[u] = "exit" /\ ~UsesManager(u)
  /\ manager_ = "destroyed" => pc[0] = "reset"

\* The manager has been destroyed after an attempt in which the pool thread
\* was the last to finish and an error was recorded.
C36_Witness ==
  /\ manager_ = "destroyed"
  /\ pc[0] = "reset"
  /\ mresults.has_error_
  /\ \A u \in Threads : waits[u] > 0
  /\ \A u \in Threads \ {0} : pc[u] = "exit"

\* C37: in the older RunBenchmark no pool thread is in
\* notifyThreadComplete (about to lock end_cond_mutex_ and notify) when the
\* attempt's ThreadManager has gone out of scope.
C37_NoNotifyAfterScope ==
  manager_ = "destroyed" =>
    \A u \in Threads \ {0} : pc[u] \notin {"notify", "decrement", "signal"}

\* The manager has gone out of scope while the pool thread, which brought
\* alive_threads_ to zero, has yet to lock end_cond_mutex_ and notify.
C37_Witness ==
  /\ manager_ = "destroyed"
  /\ pc[0] = "left"
  /\ alive_threads_ = 0
  /\ \E u \in Threads \ {0} : pc[u] = "signal"
\* =========================================================================
\* The builder calls of Benchmark (benchmark_register.cc)
\* =========================================================================
\* What the builder calls leave alone.
notBuilder ==
  <<runVars, thrVars, call_args, call_value, timer, registry, runner,
    report_label_, manager_, callback_list>>

\* int Benchmark::ArgsCnt() const
ArgsCnt ==
  IF builder.args = <<>>
    THEN IF builder.arg_names = <<>> THEN -1 ELSE Len(builder.arg_names)
    ELSE Len(Head(builder.args))

\* The loop of AddRange from i on: the powers of mult above lo and below hi.
RECURSIVE AddRangePowers(_, _, _, _)
AddRangePowers(i, lo, hi, mult) ==
  IF i >= kint32max \div mult \/ i >= hi
    THEN <<>>
    ELSE (IF i > lo THEN <<i>> ELSE <<>>)
           \o AddRangePowers(i * mult, lo, hi, mult)

\* void Benchmark::AddRange(dst, lo, hi, mult): whether its CHECKs pass, and
\* what it appends to an empty dst.
AddRange(lo, hi, mult) ==
  [ok  |-> lo >= 0 /\ hi >= lo /\ mult >= 2,
   dst |-> IF lo >= 0 /\ hi >= lo /\ mult >= 2
             THEN <<lo>> \o AddRangePowers(1, lo, hi, mult)
                    \o (IF hi # lo THEN <<hi>> ELSE <<>>)
             ELSE <<>>]

\* A builder call named method returns with the family as after, or one of
\* its CHECKs fails and the process aborts.
BuilderCall(method, ok, after) ==
  /\ builder.calls < MaxBuilds
  /\ ~builder.failed
  /\ builder' = IF ok
       THEN [after EXCEPT !.last = method, !.calls = builder.calls + 1]
       ELSE [builder EXCEPT !.last = method, !.calls = builder.calls + 1,
                            !.failed = TRUE]
  /\ UNCHANGED notBuilder

\* Each value of seq as an argument vector of one argument.
Singles(seq) == [i \in 1..Len(seq) |-> <<seq[i]>>]

\* Benchmark* Benchmark::Arg(int x)
Arg(x) ==
  BuilderCall("Arg", ArgsCnt = -1 \/ ArgsCnt = 1,
              [builder EXCEPT !.args = Append(@, <<x>>)])

\* Benchmark* Benchmark::Range(int start, int limit)
Range(start, limit) ==
  LET arglist == AddRange(start, limit, builder.range_multiplier)
  IN  BuilderCall("Range", (ArgsCnt = -1 \/ ArgsCnt = 1) /\ arglist.ok,
                  [builder EXCEPT !.args = @ \o Singles(arglist.dst)])

\* The product of the sizes of the first j lists.
RECURSIVE SizesProduct(_, _)
SizesProduct(arglists, j) ==
  IF j = 0 THEN 1 ELSE Len(arglists[j]) * SizesProduct(arglists, j - 1)

\* Benchmark* Benchmark::Ranges(ranges): the counters ctr run through the
\* product of the lists, the first list fastest.
Ranges(ranges) ==
  LET added == [j \in 1..Len(ranges) |->
                  AddRange(ranges[j][1], ranges[j][2],
                           builder.range_multiplier)]
      arglists == [j \in 1..Len(ranges) |-> added[j].dst]
      allOk == \A j \in 1..Len(ranges) : added[j].ok
      total == IF allOk THEN SizesProduct(arglists, Len(ranges)) ELSE 0
      tmp(i) == [j \in 1..Len(ranges) |->
                   arglists[j][((i \div SizesProduct(arglists, j - 1))
                                  % Len(arglists[j])) + 1]]
  IN  BuilderCall("Ranges",
                  (ArgsCnt = -1 \/ ArgsCnt = Len(ranges)) /\ allOk,
                  [builder EXCEPT
                     !.args = @ \o [i \in 1..total |-> tmp(i - 1)]])

\* Benchmark* Benchmark::ArgName(name)
ArgName(name) ==
  BuilderCall("ArgName", ArgsCnt = -1 \/ ArgsCnt = 1,
              [builder EXCEPT !.arg_names = <<name>>])

\* Benchmark* Benchmark::ArgNames(names)
ArgNames(names) ==
  BuilderCall("ArgNames", ArgsCnt = -1 \/ ArgsCnt = Len(names),
              [builder EXCEPT !.arg_names = names])

\* The arguments of DenseRange from arg on.
RECURSIVE DenseFrom(_, _, _)
DenseFrom(arg, limit, step) ==
  IF arg <= limit THEN <<arg>> \o DenseFrom(arg + step, limit, step)
                  ELSE <<>>

\* Benchmark* Benchmark::DenseRange(int start, int limit, int step)
DenseRange(start, limit, step) ==
  BuilderCall("DenseRange",
              (ArgsCnt = -1 \/ ArgsCnt = 1) /\ start >= 0 /\ start <= limit,
              [builder EXCEPT
                 !.args = @ \o Singles(DenseFrom(start, limit, step))])

\* Benchmark* Benchmark::Args(new_args)
Args(new_args) ==
  BuilderCall("Args", ArgsCnt = -1 \/ ArgsCnt = Len(new_args),
              [builder EXCEPT !.args = Append(@, new_args)])

\* Benchmark* Benchmark::RangeMultiplier(int multiplier)
RangeMultiplier(multiplier) ==
  BuilderCall("RangeMultiplier", multiplier > 1,
              [builder EXCEPT !.range_multiplier = multiplier])

\* Benchmark* Benchmark::MinTime(double t)
MinTime(t) ==
  BuilderCall("MinTime", t > 0 /\ builder.iterations = 0,
              [builder EXCEPT !.min_time = t])

\* Benchmark* Benchmark::Iterations(size_t n)
Iterations(n) ==
  BuilderCall("Iterations", n > 0 /\ IsZero(builder.min_time),
              [builder EXCEPT !.iterations = n])

\* Benchmark* Benchmark::UseRealTime()
UseRealTime ==
  BuilderCall("UseRealTime", ~builder.use_manual_time,
              [builder EXCEPT !.use_real_time = TRUE])

\* Benchmark* Benchmark::UseManualTime()
UseManualTime ==
  BuilderCall("UseManualTime", ~builder.use_real_time,
              [builder EXCEPT !.use_manual_time = TRUE])

\* The arguments the builder calls are made with: a time below epsilon and
\* times above it, ranges in and out of order, vectors of 0, 1 and 2
\* arguments.
BuilderTimes == {0, 1, 20}
BuilderCounts == {0, 5}
BuilderRanges == {<<1, 8>>, <<0, 64>>, <<8, 1>>}
BuilderVectors == {<<>>, <<1>>, <<1, 2>>}
BuilderNames == {<<>>, <<"x">>, <<"x", "y">>}
BuilderMultipliers == {1, 2}

InitBuilder == CtlIdle /\ NoCall /\ NewAttempt(1)

NextBuilder ==
  \/ \E x \in {1, 8} : Arg(x)
  \/ \E r \in BuilderRanges : Range(r[1], r[2])
  \/ \E r1, r2 \in BuilderRanges : Ranges(<<r1, r2>>)
  \/ ArgName("x")
  \/ \E names \in BuilderNames : ArgNames(names)
  \/ \E r \in BuilderRanges : DenseRange(r[1], r[2], 4)
  \/ \E new_args \in BuilderVectors : Args(new_args)
  \/ \E multiplier \in BuilderMultipliers : RangeMultiplier(multiplier)
  \/ \E t \in BuilderTimes : MinTime(t)
  \/ \E n \in BuilderCounts : Iterations(n)
  \/ UseRealTime
  \/ UseManualTime

SpecBuilder == InitBuilder /\ [][NextBuilder]_vars

\* =========================================================================
\* Properties of the builder calls (SpecBuilder)
\* =========================================================================
\* All the argument vectors of the family have one length.
SameLength ==
  \A i, j \in 1..Len(builder.args) :
    Len(builder.args[i]) = Len(builder.args[j])

\* C32, as stated: a family whose builder calls have not aborted never has
\* both use_real_time and use_manual_time set, never has both a non-zero
\* min_time and a non-zero explicit iteration count, and all its argument
\* vectors have the same length.
C32_FamilyConsistent ==
  ~builder.failed =>
    /\ ~(builder.use_real_time /\ builder.use_manual_time)
    /\ ~(builder.min_time # 0 /\ builder.iterations # 0)
    /\ SameLength

\* C32: the family after MinTime with a positive time below epsilon and
\* then Iterations: no CHECK has failed and both are non-zero.
C32_Witness ==
  /\ ~builder.failed
  /\ builder.last = "Iterations"
  /\ builder.min_time > 0
  /\ builder.iterations > 0
\* =========================================================================
\* RegisterCallback, EraseCallback, ClearCallbacks (part_009:167-200)
\* =========================================================================
\* What the calls on the callback list leave alone.
notCallbacks ==
  <<runVars, thrVars, call_args, call_value, timer, registry, runner,
    report_label_, manager_, builder>>

\* A call named op with argument ID is made on the callback list and leaves
\* it as after.
CallbackCall(op, ID, after) ==
  /\ callback_list.calls < MaxCallbackCalls
  /\ ~callback_list.fault
  /\ callback_list' =
       [after EXCEPT !.last = [op |-> op, ID |-> ID,
                               before |-> callback_list.list],
                     !.calls = callback_list.calls + 1]
  /\ UNCHANGED notCallbacks

\* int RegisterCallback(CallbackType CB): GetNextCallbackID() is ID++.
RegisterCallback(CB) ==
  CallbackCall("RegisterCallback", callback_list.ID,
    [callback_list EXCEPT
       !.list = Append(@, [first |-> callback_list.ID, second |-> CB]),
       !.returned = Append(@, callback_list.ID),
       !.ID = @ + 1])

\* std::remove_if(first, last, pred): the entries pred rejects, in order,
\* and the position it returns (Len + 1 is end()).
RECURSIVE RemoveIf(_, _)
RemoveIf(CBList, ID) ==
  IF CBList = <<>> THEN <<>>
  ELSE (IF Head(CBList).first = ID THEN <<>> ELSE <<Head(CBList)>>)
         \o RemoveIf(Tail(CBList), ID)

\* What erase(end()) can do: nothing, drop the last entry of the vector,
\* or fault.
EraseOutcomes == {"unchanged", "last", "fault"}

\* void EraseCallback(int ID): erase(position) with the position remove_if
\* returns. With one entry of this ID the kept entries have moved up and the
\* position is the last entry, which erase removes. With no entry of this
\* ID the position is end(), and erase(end()) is undefined: outcome is what
\* it does. (Two entries never have one ID.)
EraseCallback(ID, outcome) ==
  LET CBList == callback_list.list
      kept == RemoveIf(CBList, ID)
  IN  IF Len(kept) < Len(CBList)
        THEN /\ outcome = "unchanged"
             /\ CallbackCall("EraseCallback", ID,
                  [callback_list EXCEPT
                     !.list = SubSeq(kept \o <<CBList[Len(CBList)]>>, 1,
                                     Len(CBList) - 1)])
        ELSE CallbackCall("EraseCallback", ID,
               CASE outcome = "unchanged" -> callback_list
                 [] outcome = "last" /\ CBList # <<>> ->
                      [callback_list EXCEPT
                         !.list = SubSeq(CBList, 1, Len(CBList) - 1)]
                 [] OTHER -> [callback_list EXCEPT !.fault = TRUE])

\* void ClearCallbacks()
ClearCallbacks ==
  CallbackCall("ClearCallbacks", -1, [callback_list EXCEPT !.list = <<>>])

\* The callables registered, and the IDs EraseCallback is called with.
Callables == {"f", "g"}
CallbackIDs == 0..(MaxCallbackCalls - 1)

InitCallbacks == CtlIdle /\ NoCall /\ NewAttempt(1)

NextCallbacks ==
  \/ \E CB \in Callables : RegisterCallback(CB)
  \/ \E ID \in CallbackIDs, outcome \in EraseOutcomes :
       EraseCallback(ID, outcome)
  \/ ClearCallbacks

SpecCallbacks == InitCallbacks /\ [][NextCallbacks]_vars

\* =========================================================================
\* Properties of the callback list (SpecCallbacks)
\* =========================================================================
\* The list before the last call has an entry of the ID of the call.
LastKnown ==
  \E i \in 1..Len(callback_list.last.before) :
    callback_list.last.before[i].first = callback_list.last.ID

\* The list before the last call without the entries of its ID, in order.
LastWithout ==
  SelectSeq(callback_list.last.before,
            LAMBDA Ent : Ent.first # callback_list.last.ID)

\* C39, as stated: RegisterCallback returns an ID never returned before;
\* EraseCallback(id) removes exactly the callback registered under id and
\* keeps the others in registration order; EraseCallback with an unknown or
\* already erased id leaves the callback list unchanged.
C39_CallbackList ==
  /\ \A i, j \in 1..Len(callback_list.returned) :
       i # j => callback_list.returned[i] # callback_list.returned[j]
  /\ callback_list.last.op = "EraseCallback" =>
       /\ ~callback_list.fault
       /\ LastKnown =>
            /\ callback_list.list = LastWithout
            /\ Len(callback_list.list)
                 = Len(callback_list.last.before) - 1
       /\ ~LastKnown => callback_list.list = callback_list.last.before

\* C39: EraseCallback has been called with an ID that was erased before,
\* while another callback is registered, and that callback is gone.
C39_Witness ==
  /\ callback_list.last.op = "EraseCallback"
  /\ callback_list.last.ID \in
       {callback_list.returned[i] : i \in 1..Len(callback_list.returned)}
  /\ ~LastKnown
  /\ Len(callback_list.last.before) = 1
  /\ callback_list.list = <<>>
  /\ ~callback_list.fault
\* =========================================================================
\* Error records in the console output (SpecReps)
\* =========================================================================
\* C38, as stated: an instance whose attempts ended with SkipWithError has
\* at least one record of kind "error" with its message in what the
\* reporter puts out, whatever the number of repetitions and the report
\* mode.
C38_ErrorReachesOutput ==
  (cpc = "reported" /\ ErrorCount(run_reports) > 0) =>
    \E i \in 1..Len(printed), j \in 1..Len(run_reports) :
      /\ printed[i].kind = "error"
      /\ run_reports[j].kind = "error"
      /\ printed[i].error_message = run_reports[j].error_message

\* C38: two repetitions that both ended with SkipWithError, reported with
\* aggregates only: no aggregate was computed and nothing was put out.
C38_Witness ==
  /\ cpc = "reported"
  /\ report_aggregates_only
  /\ Len(run_reports) = 2
  /\ ErrorCount(run_reports) = 2
  /\ stat_reports = <<>>
  /\ printed = <<>>
\* =========================================================================
\* The complexity record on the console (complexity.cc, reporter.cc)
\* =========================================================================
\* The largest s in lo..hi with s * s <= y.
RECURSIVE ISqrt(_, _, _)
ISqrt(y, lo, hi) ==
  IF lo >= hi THEN lo
  ELSE LET mid == (lo + hi + 1) \div 2
       IN IF mid * mid <= y THEN ISqrt(y, mid, hi) ELSE ISqrt(y, lo, mid - 1)

\* printf("%10.0f %%", RMS * 100.0) of the stored quotient rms / multiplier,
\* rms being sqrt(radicand) / mean: the nearest whole number to
\* p = 100 * rms / multiplier. With x = (200 * rms)^2 it is the k with
\* (2k - 1)^2 <= x / multiplier^2 < (2k + 1)^2.
PercentShown(q) ==
  IF q[1] = NaN THEN [text |-> "nan", number |-> 0]
  ELSE IF q[1] = Inf THEN [text |-> "inf", number |-> 0]
  ELSE LET a == q[1].radicand[1]
           bb == q[1].radicand[2]
           c == q[1].mean[1]
           d == q[1].mean[2]
           x == (40000 * a * d * d) \div (bb * c * c)
           y == (x \div q[2]) \div q[2]
       IN [text |-> "", number |-> (ISqrt(y, 0, 1000) + 1) \div 2]

\* printf("%10.2f", coefficient): the coefficient in hundredths, to the
\* nearest.
HundredthsShown(coef) ==
  IF coef[2] = 0 THEN [text |-> "nan", number |-> 0]
  ELSE [text |-> "", number |-> (200 * coef[1] + coef[2]) \div (2 * coef[2])]

\* PrintComplexityRun(Out, printer, result, name_field_width): the numbers
\* of the <name>_BigO line and of the <name>_RMS line.
PrintComplexityRun(result) ==
  [BigO |-> [real_time_coefficient |->
               HundredthsShown(result.big_o.real_time_coefficient),
             cpu_time_coefficient |->
               HundredthsShown(result.big_o.cpu_time_coefficient),
             big_o |-> result.complexity],
   RMS |-> [real_time |-> PercentShown(result.rms.real_time),
            cpu_time |-> PercentShown(result.rms.cpu_time)]]

TimeUnits == {kNanosecond, kMicrosecond, kMillisecond}

\* Calls ComputeBigO(instance, reports) for a family of two runs in each
\* time unit.
UnitCalls ==
  [fn : {"ComputeBigO"},
   instance : [complexity : {oN}, time_unit : TimeUnits],
   reports : {reports \in FamilyReports(5) : Len(reports) = 2}]

InitUnits ==
  /\ CtlIdle
  /\ NewAttempt(1)
  /\ call_args \in UnitCalls
  /\ call_value = <<>>

\* The reporter prints the complexity record ComputeBigO has returned.
CallPrintComplexityRun ==
  /\ call_args /= <<>>
  /\ call_args.fn = "ComputeBigO"
  /\ Len(call_value) = 1
  /\ call_value' = Append(call_value, PrintComplexityRun(call_value[1]))
  /\ UNCHANGED <<call_args, runVars, objVars>>

NextUnits ==
  \/ CallComputeBigO /\ UNCHANGED thrVars
  \/ CallPrintComplexityRun /\ UNCHANGED thrVars

SpecUnits == InitUnits /\ [][NextUnits]_vars

\* =========================================================================
\* Properties of the printed RMS (SpecUnits)
\* =========================================================================
\* The complexity record has been printed.
ComplexityPrinted == Len(call_value) = 2

\* What is printed for the same measurements when the family has unit.
PrintedWith(unit) ==
  PrintComplexityRun(
    ComputeBigOFit([call_args.instance EXCEPT !.time_unit = unit],
                   call_args.reports))

\* C34, as stated: the RMS figures printed for the same measurements are the
\* same in every time unit, and they are the RMS of the fit in percent: the
\* division by the multiplier has been cancelled.
C34_RmsSameInEveryUnit ==
  ComplexityPrinted =>
    /\ \A unit \in TimeUnits : PrintedWith(unit).RMS = call_value[2].RMS
    /\ call_value[2].RMS.cpu_time
         = PercentShown(<<call_value[1].rms.cpu_time[1], 1>>)
    /\ call_value[2].RMS.real_time
         = PercentShown(<<call_value[1].rms.real_time[1], 1>>)

\* C34: a family in milliseconds whose fit has an RMS of 20% or more, and
\* 0 % has been printed.
C34_Witness ==
  /\ ComplexityPrinted
  /\ call_args.instance.time_unit = kMillisecond
  /\ PercentShown(<<call_value[1].rms.cpu_time[1], 1>>).number >= 20
  /\ call_value[2].RMS.cpu_time.number = 0
\* =========================================================================
\* What CompareResults returns for each kind of node (SpecCompare)
\* =========================================================================
\* A comparison record of the two originals with both changes.
IsComparisonOf(Res, R1, R2) ==
  /\ Res.kind = "comparison"
  /\ Res.old_result = R1
  /\ Res.new_result.name = R2.name
  /\ DOMAIN Res.comparison = {"cpu_iteration_time", "real_iteration_time"}

\* C33, as stated: for two inputs that ClassifyNode gives the same
\* classification, what CompareResults returns is a record of kind
\* "comparison" that holds both originals and both changes, or a list of
\* such records that is not empty; never null.
C33_ComparisonReturned ==
  (/\ CompareResultsReturned
   /\ ClassifyNode(call_args.R1) \in {JK_Report, JK_Run, JK_ReportList}
   /\ ClassifyNode(call_args.R2) = ClassifyNode(call_args.R1)
   /\ ~call_value[1].failed) =>
    \/ /\ call_value[1].type = "object"
       /\ IsComparisonOf(call_value[1].Res, call_args.R1, call_args.R2)
       /\ call_value[1].Res.new_result = call_args.R2
    \/ /\ call_value[1].type = "array"
       /\ call_value[1].Res /= <<>>
       /\ \A i \in 1..Len(call_value[1].Res) :
            \E j \in 1..Len(call_args.R2.array) :
              IsComparisonOf(call_value[1].Res[i], call_args.R1.array[i],
                             call_args.R2.array[j])

\* C33: CompareResults has returned null for two run records of kind
\* "normal".
C33_Witness ==
  /\ CompareResultsReturned
  /\ ClassifyNode(call_args.R1) = JK_Run
  /\ ClassifyNode(call_args.R2) = JK_Run
  /\ call_args.R1.kind = "normal"
  /\ call_args.R2.kind = "normal"
  /\ ~call_value[1].failed
  /\ call_value[1].type = "null"

====
